---- MODULE Spec2Model ----
(***************************************************************************)
(* Model of the PyBay video renamer (src/src/file_renamer.py): the time    *)
(* normalizer, the filename tokenizer, the talk-to-file matcher, the       *)
(* filename generator, the rename-mapping pass, rename_files and the       *)
(* prefix fixer; of the speaker matcher of src/src/pyvideo_converter.py;   *)
(* and of the downloader (src/src/google_drive_video_downloader.py with    *)
(* src/src/file_ops_parallel.py and verify_file of src/src/file_ops.py).   *)
(*                                                                         *)
(* A Python string is a sequence of one-character strings.  The em-dash    *)
(* (U+2014) is the single character written "EMDASH" here.  Python's None  *)
(* is the value None below, which is no string.                            *)
(***************************************************************************)
EXTENDS Integers, Sequences, FiniteSets, TLC

VARIABLES
    pc,              \* position of the run: which call is next / has returned
    talk,            \* argument talk of find_video_for_talk,
                     \* generate_new_filename, match_speaker_with_fuzzy_matching
    video_files,     \* find_video_for_talk: argument video_files (list of names)
    result,          \* what find_video_for_talk, normalize_time_to_24h or
                     \* match_speaker_with_fuzzy_matching (its talk) returned
    year,            \* generate_new_filename / create_rename_mapping_from_json: year
    extension,       \* generate_new_filename: argument extension
    new_filename,    \* generate_new_filename: returned name
    directory,       \* names of the files in video_dir
    talks,           \* create_rename_mapping_from_json: argument talks
    idx,             \* create_rename_mapping_from_json: number of talks processed
    rename_map,      \* create_rename_mapping_from_json: rename_map, set of <<old, new>>
    matched_files,   \* create_rename_mapping_from_json: matched_files
    skipped_talks,   \* create_rename_mapping_from_json: skipped_talks
    unmatched_files, \* create_rename_mapping_from_json: unmatched_files
    talk_time,       \* normalize_time_to_24h: argument time_str
    video_file,      \* extract_tokens_from_filename: argument filename
    file_tokens,     \* extract_tokens_from_filename: returned dict
    talk_metadata,   \* match_speaker_with_fuzzy_matching: argument talk_metadata
    needs_manual_review, \* match_speaker_with_fuzzy_matching: returned flag
    run,             \* file_renamer main: which run over the directory this is
    dry_run,         \* rename_files: argument dry_run
    position,        \* rename_files: number of rename_map items processed
    success_count,   \* rename_files: success_count
    error_count,     \* rename_files: error_count
    skip_count,      \* rename_files: number of items skipped at line 510
    completed,       \* rename_files: the counts of each call that ran to line 522
    normalized_yt_title, \* match_speaker_with_fuzzy_matching: normalized_yt_title
    all_files,       \* downloader main: files, the listing of the Drive folder
    local,           \* the download directory: file name -> stored file
    existing_count,  \* downloader main: existing_count of the pre-scan
    files_to_download, \* downloader main: indices into all_files to fetch
    total_stats,     \* downloader main: total_stats
    workers,         \* one record per submitted process_single_file_parallel
    max_retries      \* download_file_fast: argument max_retries

vars == <<pc, talk, video_files, result, year, extension, new_filename,
          directory, talks, idx, rename_map, matched_files, skipped_talks,
          unmatched_files, talk_time, video_file, file_tokens, talk_metadata,
          needs_manual_review, run, dry_run, position, success_count,
          error_count, skip_count, completed, normalized_yt_title, all_files,
          local, existing_count, files_to_download, total_stats, workers,
          max_retries>>

\* the variables of the downloader
downloadVars ==
    <<all_files, local, existing_count, files_to_download, total_stats, workers,
      max_retries>>

\* the variables of rename_files and of the runs of main
renameVars ==
    <<run, dry_run, position, success_count, error_count, skip_count,
      completed>>

\* the variables that one function or one program has to itself
opVars == <<renameVars, normalized_yt_title, downloadVars>>

\* the variables of normalize_time_to_24h, extract_tokens_from_filename and
\* match_speaker_with_fuzzy_matching called on their own, with opVars
callVars ==
    <<talk_time, video_file, file_tokens, talk_metadata, needs_manual_review,
      opVars>>

----------------------------------------------------------------------------
(* Python values and string primitives                                     *)

None == <<"<None>">>

EmDash == "EMDASH"

\* the en-dash (U+2013)
EnDash == "ENDASH"

Truthy(s) == s /= None /\ s /= <<>>

Digits == {"0", "1", "2", "3", "4", "5", "6", "7", "8", "9"}

UpperLetters ==
    {"A", "B", "C", "D", "E", "F", "G", "H", "I", "J", "K", "L", "M",
     "N", "O", "P", "Q", "R", "S", "T", "U", "V", "W", "X", "Y", "Z"}

LowerLetters ==
    {"a", "b", "c", "d", "e", "f", "g", "h", "i", "j", "k", "l", "m",
     "n", "o", "p", "q", "r", "s", "t", "u", "v", "w", "x", "y", "z"}

LowerOfUpper ==
    [c \in UpperLetters |->
        CASE c = "A" -> "a" [] c = "B" -> "b" [] c = "C" -> "c" [] c = "D" -> "d"
          [] c = "E" -> "e" [] c = "F" -> "f" [] c = "G" -> "g" [] c = "H" -> "h"
          [] c = "I" -> "i" [] c = "J" -> "j" [] c = "K" -> "k" [] c = "L" -> "l"
          [] c = "M" -> "m" [] c = "N" -> "n" [] c = "O" -> "o" [] c = "P" -> "p"
          [] c = "Q" -> "q" [] c = "R" -> "r" [] c = "S" -> "s" [] c = "T" -> "t"
          [] c = "U" -> "u" [] c = "V" -> "v" [] c = "W" -> "w" [] c = "X" -> "x"
          [] c = "Y" -> "y" [] c = "Z" -> "z"]

\* str.lower() on one character
LowerChar(c) == IF c \in UpperLetters THEN LowerOfUpper[c] ELSE c

\* str.lower()
Lower(s) == [i \in 1..Len(s) |-> LowerChar(s[i])]

\* regex \d
IsDigit(c) == c \in Digits

WordChars == Digits \cup UpperLetters \cup LowerLetters \cup {"_"}

\* regex \w
IsWordChar(c) == c \in WordChars

\* regex \s
IsSpace(c) == c \in {" ", "\t"}

\* s[a:b] of Python, 0-based, a <= b
Slice(s, a, b) == SubSeq(s, a + 1, b)

\* sub in s
Contains(s, sub) ==
    \E i \in 0..(Len(s) - Len(sub)) : Slice(s, i, i + Len(sub)) = sub

\* s.startswith(p)
StartsWith(s, p) == Len(p) <= Len(s) /\ Slice(s, 0, Len(p)) = p

\* s.endswith(p)
EndsWith(s, p) == Len(p) <= Len(s) /\ Slice(s, Len(s) - Len(p), Len(s)) = p

\* s.strip()
Strip(s) ==
    LET keep == {i \in 1..Len(s) : ~IsSpace(s[i])}
    IN  IF keep = {} THEN <<>>
        ELSE LET lo == CHOOSE i \in keep : \A j \in keep : i <= j
                 hi == CHOOSE i \in keep : \A j \in keep : j <= i
             IN  SubSeq(s, lo, hi)

RECURSIVE Join(_, _)
\* sep.join(parts)
Join(sep, parts) ==
    IF parts = <<>> THEN <<>>
    ELSE IF Len(parts) = 1 THEN parts[1]
    ELSE parts[1] \o sep \o Join(sep, Tail(parts))

DigitValue ==
    [c \in Digits |->
        CASE c = "0" -> 0 [] c = "1" -> 1 [] c = "2" -> 2 [] c = "3" -> 3
          [] c = "4" -> 4 [] c = "5" -> 5 [] c = "6" -> 6 [] c = "7" -> 7
          [] c = "8" -> 8 [] c = "9" -> 9]

DigitChar == <<"0", "1", "2", "3", "4", "5", "6", "7", "8", "9">>

RECURSIVE IntOf(_)
\* int(ds) for a non-empty string of digits
IntOf(ds) ==
    IF Len(ds) = 1 THEN DigitValue[ds[1]]
    ELSE 10 * IntOf(SubSeq(ds, 1, Len(ds) - 1)) + DigitValue[ds[Len(ds)]]

RECURSIVE StrOfNat(_)
\* str(n) / f"{n}" for n >= 0
StrOfNat(n) ==
    IF n < 10 THEN <<DigitChar[n + 1]>>
    ELSE StrOfNat(n \div 10) \o <<DigitChar[(n % 10) + 1]>>

\* Format02d without the zero padding
Format02d_NoPad(n) == StrOfNat(n)

\* f"{n:02d}" for n >= 0
Format02d(n) == IF n < 10 THEN <<"0">> \o StrOfNat(n) ELSE StrOfNat(n)

----------------------------------------------------------------------------
(* normalize_time_to_24h                                                   *)

S_am == <<"a", "m">>
S_pm == <<"p", "m">>

\* normalize_time_to_24h with its noon rule and its fallback branch switched
\* on or off
NormalizeTimeVariant(time_str, noon_rule, fallback) ==
    LET digits == SelectSeq(time_str, IsDigit)
        am_pm  == IF Contains(Lower(time_str), S_am) THEN "am"
                  ELSE IF Contains(Lower(time_str), S_pm) THEN "pm"
                  ELSE "None"
        hour0  == IF Len(digits) = 4 THEN IntOf(Slice(digits, 0, 2))
                  ELSE IF Len(digits) = 3 THEN IntOf(Slice(digits, 0, 1))
                  ELSE IF Len(digits) = 2 THEN IntOf(digits)
                  ELSE IF Len(digits) = 1 THEN IntOf(digits)
                  ELSE IntOf(Slice(digits, 0, 2))
        minute == IF Len(digits) = 4 THEN IntOf(Slice(digits, 2, 4))
                  ELSE IF Len(digits) = 3 THEN IntOf(Slice(digits, 1, 3))
                  ELSE 0
        hour   == IF am_pm = "pm" /\ (hour0 /= 12 \/ ~noon_rule) THEN hour0 + 12
                  ELSE IF am_pm = "am" /\ hour0 = 12 /\ noon_rule THEN 0
                  ELSE hour0
    IN  IF digits = <<>> \/ (Len(digits) > 4 /\ ~fallback) THEN <<>>
        ELSE Format02d(hour) \o Format02d(minute)

\* normalize_time_to_24h that adds 12 to every pm hour and keeps every am hour
normalize_time_to_24h_NoNoonRule(time_str) ==
    NormalizeTimeVariant(time_str, FALSE, TRUE)

\* normalize_time_to_24h without the branch for more than four digits
normalize_time_to_24h_NoFallback(time_str) ==
    NormalizeTimeVariant(time_str, TRUE, FALSE)

normalize_time_to_24h(time_str) ==
    LET digits == SelectSeq(time_str, IsDigit)
        am_pm  == IF Contains(Lower(time_str), S_am) THEN "am"
                  ELSE IF Contains(Lower(time_str), S_pm) THEN "pm"
                  ELSE "None"
        hour0  == IF Len(digits) = 4 THEN IntOf(Slice(digits, 0, 2))
                  ELSE IF Len(digits) = 3 THEN IntOf(Slice(digits, 0, 1))
                  ELSE IF Len(digits) = 2 THEN IntOf(digits)
                  ELSE IF Len(digits) = 1 THEN IntOf(digits)
                  ELSE IntOf(Slice(digits, 0, 2))
        minute == IF Len(digits) = 4 THEN IntOf(Slice(digits, 2, 4))
                  ELSE IF Len(digits) = 3 THEN IntOf(Slice(digits, 1, 3))
                  ELSE 0
        hour   == IF am_pm = "pm" /\ hour0 /= 12 THEN hour0 + 12
                  ELSE IF am_pm = "am" /\ hour0 = 12 THEN 0
                  ELSE hour0
    IN  IF digits = <<>> THEN <<>>
        ELSE Format02d(hour) \o Format02d(minute)

----------------------------------------------------------------------------
(* extract_tokens_from_filename                                            *)

\* Path(filename).suffix: the text from the last '.', unless that dot is
\* the first or the last character of the name
PathSuffix(name) ==
    LET dots == {i \in 1..Len(name) : name[i] = "."}
    IN  IF dots = {} THEN <<>>
        ELSE LET i == CHOOSE d \in dots : \A e \in dots : e <= d
             IN  IF 1 < i /\ i < Len(name) THEN SubSeq(name, i, Len(name))
                 ELSE <<>>

\* Path(filename).stem
PathStem(name) == SubSeq(name, 1, Len(name) - Len(PathSuffix(name)))

\* regex \b at position p (between s[p] and s[p+1], 0 <= p <= Len(s))
WordBoundary(s, p) ==
    (p > 0 /\ IsWordChar(s[p])) /= (p < Len(s) /\ IsWordChar(s[p + 1]))

\* The k-th way, in the regex engine's order of preference (greedy
\* quantifiers first), of choosing the repetition counts of
\*   \d{1,2}  :?  \d{0,2}  \s?  (?:am|pm|...)?
TimeAlternative(k) ==
    LET j == k - 1
    IN  [d1    |-> 2 - (j \div 24),
         colon |-> 1 - ((j \div 12) % 2),
         d2    |-> 2 - ((j \div 4) % 3),
         sp    |-> 1 - ((j \div 2) % 2),
         ap    |-> 2 * (1 - (j % 2))]

TimeAlternativeEnd(p, a) == p + a.d1 + a.colon + a.d2 + a.sp + a.ap

\* does \b(\d{1,2}:?\d{0,2}\s?(?:am|pm)?)\b, re.IGNORECASE, match s at p
\* with the repetition counts a
TimeAlternativeMatches(s, p, a) ==
    LET c  == p + a.d1
        d  == c + a.colon
        w  == d + a.d2
        m  == w + a.sp
        e  == m + a.ap
    IN  /\ e <= Len(s)
        /\ WordBoundary(s, p)
        /\ \A i \in (p + 1)..c : IsDigit(s[i])
        /\ a.colon = 1 => s[d] = ":"
        /\ \A i \in (d + 1)..w : IsDigit(s[i])
        /\ a.sp = 1 => IsSpace(s[m])
        /\ a.ap = 2 => Lower(Slice(s, m, e)) \in {S_am, S_pm}
        /\ WordBoundary(s, e)

\* re.search(r'\b(\d{1,2}:?\d{0,2}\s?(?:am|pm|AM|PM|Am|Pm|aM|pM)?)\b', s,
\* re.IGNORECASE): group(1) of the leftmost match, or None
TimeSearch(s) ==
    LET Alts(p) == IF p < Len(s) /\ IsDigit(s[p + 1]) /\ WordBoundary(s, p)
                   THEN {k \in 1..48 :
                            TimeAlternativeMatches(s, p, TimeAlternative(k))}
                   ELSE {}
        starts  == {p \in 0..Len(s) : Alts(p) /= {}}
    IN  IF starts = {} THEN None
        ELSE LET p == CHOOSE q \in starts : \A r \in starts : q <= r
                 k == CHOOSE a \in Alts(p) : \A b \in Alts(p) : a <= b
             IN  Slice(s, p, TimeAlternativeEnd(p, TimeAlternative(k)))

\* re.match(r'^([^-]+?)\s*-', s): group(1).strip(), or None
RoomMatch(s) ==
    LET hyphens == {i \in 1..Len(s) : s[i] = "-"}
    IN  IF hyphens = {} THEN None
        ELSE LET h    == CHOOSE i \in hyphens : \A j \in hyphens : i <= j
                 ends == {k \in 1..(h - 1) : \A i \in (k + 1)..(h - 1) : IsSpace(s[i])}
             IN  IF ends = {} THEN None
                 ELSE Strip(SubSeq(s, 1, CHOOSE k \in ends : \A j \in ends : k <= j))

\* number of regex-\s characters of s from position p on
RECURSIVE SpaceRun(_, _)
SpaceRun(s, p) ==
    IF p < Len(s) /\ IsSpace(s[p + 1]) THEN 1 + SpaceRun(s, p + 1) ELSE 0

\* FieldSeparatorAt for \s*-\s*: a hyphen without spaces around it separates too
FieldSeparatorAt_BareHyphen(s, e) ==
    LET r == e + SpaceRun(s, e)
    IN  r < Len(s) /\ s[r + 1] = "-"

\* does \s+-\s+ match s at position e
FieldSeparatorAt(s, e) ==
    LET r == e + SpaceRun(s, e)
    IN  /\ r > e
        /\ r < Len(s) /\ s[r + 1] = "-"
        /\ r + 1 < Len(s) /\ IsSpace(s[r + 2])

\* The matches of  \b{time_token}\b\s*-\s*(.+?)\s+-\s+  that start at p:
\* <<g, e>> with the group being s[g:e]
LastnameMatchesAt(s, time_token, p) ==
    LET q == p + Len(time_token)
        h == q + SpaceRun(s, q)
        a == (h + 1) + SpaceRun(s, h + 1)
    IN  IF /\ q <= Len(s)
           /\ Slice(s, p, q) = time_token
           /\ WordBoundary(s, p) /\ WordBoundary(s, q)
           /\ h < Len(s) /\ s[h + 1] = "-"
        THEN {ge \in ((h + 1)..a) \X ((h + 2)..Len(s)) :
                 ge[1] < ge[2] /\ FieldSeparatorAt(s, ge[2])}
        ELSE {}

\* re.search(rf'\b{time_token}\b\s*-\s*(.+?)\s+-\s+', s): group(1).strip(),
\* or None.  The engine prefers the leftmost start, then the longest \s*
\* before the group (the latest g), then the shortest group (the earliest e).
LastnameSearch(s, time_token) ==
    LET starts == {p \in 0..Len(s) : LastnameMatchesAt(s, time_token, p) /= {}}
    IN  IF starts = {} THEN None
        ELSE LET p  == CHOOSE x \in starts : \A y \in starts : x <= y
                 ms == LastnameMatchesAt(s, time_token, p)
                 g  == CHOOSE x \in {m[1] : m \in ms} : \A m \in ms : m[1] <= x
                 e  == CHOOSE x \in {m[2] : m \in {n \in ms : n[1] = g}} :
                           \A m \in {n \in ms : n[1] = g} : x <= m[2]
             IN  Strip(Slice(s, g, e))

extract_tokens_from_filename(filename) ==
    LET name_without_ext == PathStem(filename)
        suffix           == PathSuffix(filename)
        time_token       == TimeSearch(name_without_ext)
        room_token       == RoomMatch(name_without_ext)
        lastname_token   == IF Truthy(time_token)
                            THEN LastnameSearch(name_without_ext, time_token)
                            ELSE None
    IN  [filename         |-> filename,
         room             |-> room_token,
         time             |-> time_token,
         lastname         |-> lastname_token,
         extension        |-> SubSeq(suffix, 2, Len(suffix)),
         name_without_ext |-> name_without_ext]

----------------------------------------------------------------------------
(* find_video_for_talk                                                     *)

\* ' — ', the separator of a published name
EmDashSeparator == <<" ", EmDash, " ">>

S_Underscore == <<"_">>
S_Dot == <<".">>

\* talk['speakers'] lowercased (new format), or the talk's own
\* firstname/lastname keys (old format, no 'speakers' list)
TalkSpeakers(t) ==
    IF t.has_speakers
    THEN [i \in 1..Len(t.speakers) |->
             [firstname |-> Lower(t.speakers[i].firstname),
              lastname  |-> Lower(t.speakers[i].lastname)]]
    ELSE <<[firstname |-> Lower(t.firstname), lastname |-> Lower(t.lastname)]>>

\* "Skip if already processed (starts with underscore or has new naming pattern)"
AlreadyProcessed(name) ==
    StartsWith(name, S_Underscore) \/ Contains(name, EmDashSeparator)

\* RoomMatches with the comparison inverted ('==' written for '!=')
RoomMatches_Inverted(tokens, talk_room) ==
    ~(Truthy(tokens.room) /\ Lower(tokens.room) = talk_room)

\* "Match room": False means the candidate is skipped
RoomMatches(tokens, talk_room) ==
    ~(Truthy(tokens.room) /\ Lower(tokens.room) /= talk_room)

\* TimeMatches with a missing time treated like a missing room: not skipped
TimeMatches_Optional(tokens, talk_time_24h) ==
    IF Truthy(tokens.time)
    THEN normalize_time_to_24h(tokens.time) = talk_time_24h
    ELSE TRUE

\* "Match time": False means the candidate is skipped
TimeMatches(tokens, talk_time_24h) ==
    IF Truthy(tokens.time)
    THEN normalize_time_to_24h(tokens.time) = talk_time_24h
    ELSE FALSE

\* one pass of the loop over talk_speakers: does this speaker set name_matches
SpeakerMatches(speaker, video_lastname) ==
    \/ /\ video_lastname /= <<>> /\ speaker.lastname /= <<>>
       /\ speaker.lastname /= S_Dot
       /\ \/ Contains(video_lastname, speaker.lastname)
          \/ Contains(speaker.lastname, video_lastname)
    \/ /\ speaker.firstname /= <<>> /\ video_lastname /= <<>>
       /\ \/ Contains(video_lastname, speaker.firstname)
          \/ Contains(speaker.firstname, video_lastname)

\* NameMatches that looks at the first speaker of the talk only
NameMatches_FirstSpeakerOnly(tokens, talk_speakers) ==
    LET video_lastname == IF tokens.lastname /= None THEN Lower(tokens.lastname)
                          ELSE <<>>
    IN  IF video_lastname = <<>> THEN TRUE
        ELSE IF ~(\E i \in 1..Len(talk_speakers) :
                     talk_speakers[i].firstname /= <<>>
                     \/ talk_speakers[i].lastname /= <<>>)
        THEN TRUE
        ELSE SpeakerMatches(talk_speakers[1], video_lastname)

\* "Verify name": the value of name_matches when the candidate is decided
NameMatches(tokens, talk_speakers) ==
    LET video_lastname == IF tokens.lastname /= None THEN Lower(tokens.lastname)
                          ELSE <<>>
    IN  IF video_lastname = <<>> THEN TRUE
        ELSE IF ~(\E i \in 1..Len(talk_speakers) :
                     talk_speakers[i].firstname /= <<>>
                     \/ talk_speakers[i].lastname /= <<>>)
        THEN TRUE
        ELSE \E i \in 1..Len(talk_speakers) :
                 SpeakerMatches(talk_speakers[i], video_lastname)

\* the body of the loop for one candidate: TRUE when it is returned
CandidatePasses(t, tokens) ==
    /\ ~AlreadyProcessed(tokens.filename)
    /\ RoomMatches(tokens, Lower(t.room))
    /\ TimeMatches(tokens, normalize_time_to_24h(t.start_time))
    /\ NameMatches(tokens, TalkSpeakers(t))

----------------------------------------------------------------------------
(* The strings the runs are drawn from                                     *)

\* ""
S_Empty ==
    <<>>

\* "Rob"
S_Rob ==
    <<"R", "o", "b">>

\* "Fis"
S_Fis ==
    <<"F", "i", "s">>

\* "10:00 am"
S_10_00_am ==
    <<"1", "0", ":", "0", "0", " ", "a", "m">>

\* "2:30 pm"
S_2_30_pm ==
    <<"2", ":", "3", "0", " ", "p", "m">>

\* "230pm"
S_230pm ==
    <<"2", "3", "0", "p", "m">>

\* "TBD"
S_TBD ==
    <<"T", "B", "D">>

\* "Fabio"
S_Fabio ==
    <<"F", "a", "b", "i", "o">>

\* "Pliger"
S_Pliger ==
    <<"P", "l", "i", "g", "e", "r">>

\* "Chris"
S_Chris ==
    <<"C", "h", "r", "i", "s">>

\* "Laffra"
S_Laffra ==
    <<"L", "a", "f", "f", "r", "a">>

\* "John"
S_John ==
    <<"J", "o", "h", "n">>

\* "Doe"
S_Doe ==
    <<"D", "o", "e">>

\* "Madonna"
S_Madonna ==
    <<"M", "a", "d", "o", "n", "n", "a">>

\* "Glyph"
S_Glyph ==
    <<"G", "l", "y", "p", "h">>

\* "Lefkowitz"
S_Lefkowitz ==
    <<"L", "e", "f", "k", "o", "w", "i", "t", "z">>

\* "Zac"
S_Zac ==
    <<"Z", "a", "c">>

\* "Talk"
S_Talk ==
    <<"T", "a", "l", "k">>

\* "Rob - 1000 - Laffra - T"
S_TokenTitle ==
    <<"R", "o", "b", " ", "-", " ", "1", "0", "0", "0", " ", "-", " ", "L",
      "a", "f", "f", "r", "a", " ", "-", " ", "T">>

\* 'R&D: <A/B>? "x\y|*'
S_PunctTitle ==
    <<"R", "&", "D", ":", " ", "<", "A", "/", "B", ">", "?", " ", "\"", "x",
      "\\", "y", "|", "*">>

\* "mp4"
S_mp4 ==
    <<"m", "p", "4">>

\* "mov"
S_mov ==
    <<"m", "o", "v">>

\* "![REVIEW_NEEDED]_"
S_ReviewPrefix ==
    <<"!", "[", "R", "E", "V", "I", "E", "W", "_", "N", "E", "E", "D", "E",
      "D", "]", "_">>

\* "Rob - 1000 - Laffra - T.mp4"
F_Standard ==
    <<"R", "o", "b", " ", "-", " ", "1", "0", "0", "0", " ", "-", " ", "L",
      "a", "f", "f", "r", "a", " ", "-", " ", "T", ".", "m", "p", "4">>

\* "ROB - 10am - Pliger - T.mp4"
F_UpperRoom ==
    <<"R", "O", "B", " ", "-", " ", "1", "0", "a", "m", " ", "-", " ", "P",
      "l", "i", "g", "e", "r", " ", "-", " ", "T", ".", "m", "p", "4">>

\* "Fis - 1000 - Laffra - T.mp4"
F_OtherRoom ==
    <<"F", "i", "s", " ", "-", " ", "1", "0", "0", "0", " ", "-", " ", "L",
      "a", "f", "f", "r", "a", " ", "-", " ", "T", ".", "m", "p", "4">>

\* "Rob - 1430 - Laffra - T.mp4"
F_OtherTime ==
    <<"R", "o", "b", " ", "-", " ", "1", "4", "3", "0", " ", "-", " ", "L",
      "a", "f", "f", "r", "a", " ", "-", " ", "T", ".", "m", "p", "4">>

\* "Rob - 230pm - Smith - T.mp4"
F_Afternoon ==
    <<"R", "o", "b", " ", "-", " ", "2", "3", "0", "p", "m", " ", "-", " ",
      "S", "m", "i", "t", "h", " ", "-", " ", "T", ".", "m", "p", "4">>

\* "Rob - 1000 - Smith - T.mp4"
F_OtherName ==
    <<"R", "o", "b", " ", "-", " ", "1", "0", "0", "0", " ", "-", " ", "S",
      "m", "i", "t", "h", " ", "-", " ", "T", ".", "m", "p", "4">>

\* "Rob - 1000.mp4"
F_NoLastname ==
    <<"R", "o", "b", " ", "-", " ", "1", "0", "0", "0", ".", "m", "p", "4">>

\* "Rob - Laffra - T.mp4"
F_NoTime ==
    <<"R", "o", "b", " ", "-", " ", "L", "a", "f", "f", "r", "a", " ", "-",
      " ", "T", ".", "m", "p", "4">>

\* "T 1000.mp4"
F_NoRoom ==
    <<"T", " ", "1", "0", "0", "0", ".", "m", "p", "4">>

\* "Rob - 1000 - Madonna - T.mp4"
F_Firstname ==
    <<"R", "o", "b", " ", "-", " ", "1", "0", "0", "0", " ", "-", " ", "M",
      "a", "d", "o", "n", "n", "a", " ", "-", " ", "T", ".", "m", "p", "4">>

\* "Rob - 1000 - van Laffra - T.mp4"
F_LongLastname ==
    <<"R", "o", "b", " ", "-", " ", "1", "0", "0", "0", " ", "-", " ", "v",
      "a", "n", " ", "L", "a", "f", "f", "r", "a", " ", "-", " ", "T", ".",
      "m", "p", "4">>

\* "Rob - 1000 - Laffra -- T.mp4"
F_PublishedTokens ==
    <<"R", "o", "b", " ", "-", " ", "1", "0", "0", "0", " ", "-", " ", "L",
      "a", "f", "f", "r", "a", " ", EmDash, " ", "T", ".", "m", "p", "4">>

\* "T -- Chris Laffra (PyBay 2025).mp4"
F_Published ==
    <<"T", " ", EmDash, " ", "C", "h", "r", "i", "s", " ", "L", "a", "f",
      "f", "r", "a", " ", "(", "P", "y", "B", "a", "y", " ", "2", "0", "2",
      "5", ")", ".", "m", "p", "4">>

\* "![REVIEW_NEEDED]_Rob - 1000 - Laffra - T.mp4"
F_ReviewRoom ==
    <<"!", "[", "R", "E", "V", "I", "E", "W", "_", "N", "E", "E", "D", "E",
      "D", "]", "_", "R", "o", "b", " ", "-", " ", "1", "0", "0", "0", " ",
      "-", " ", "L", "a", "f", "f", "r", "a", " ", "-", " ", "T", ".", "m",
      "p", "4">>

\* "![REVIEW_NEEDED]_T 1000.mp4"
F_ReviewNoRoom ==
    <<"!", "[", "R", "E", "V", "I", "E", "W", "_", "N", "E", "E", "D", "E",
      "D", "]", "_", "T", " ", "1", "0", "0", "0", ".", "m", "p", "4">>

\* "_T 1000.mp4"
F_Underscore ==
    <<"_", "T", " ", "1", "0", "0", "0", ".", "m", "p", "4">>

\* "Fis - 1000 - Pliger - T.mov"
F_Mov ==
    <<"F", "i", "s", " ", "-", " ", "1", "0", "0", "0", " ", "-", " ", "P",
      "l", "i", "g", "e", "r", " ", "-", " ", "T", ".", "m", "o", "v">>

\* "Rob - 230pm - Doe - T.MP4"
F_UpperExt ==
    <<"R", "o", "b", " ", "-", " ", "2", "3", "0", "p", "m", " ", "-", " ",
      "D", "o", "e", " ", "-", " ", "T", ".", "M", "P", "4">>

\* "_pybay_2025_talk_data.json"
F_Metadata ==
    <<"_", "p", "y", "b", "a", "y", "_", "2", "0", "2", "5", "_", "t", "a",
      "l", "k", "_", "d", "a", "t", "a", ".", "j", "s", "o", "n">>

----------------------------------------------------------------------------
(* Talks                                                                   *)

Speaker(firstname, lastname) == [firstname |-> firstname, lastname |-> lastname]

\* the talk_title of a talk record without the key 'talk_title'
Missing == <<"<missing>">>

\* RaisesKeyError for a dict lookup that never raises
RaisesKeyError_Never(t) == FALSE

\* talk['talk_title'] raises KeyError
RaisesKeyError(t) == t.talk_title = Missing

\* a talk record with a 'speakers' list (new format); has_speakers is
\* 'speakers' in talk and isinstance(talk['speakers'], list)
Talk(room, start_time, talk_title, speakers) ==
    [room |-> room, start_time |-> start_time, talk_title |-> talk_title,
     has_speakers |-> TRUE, speakers |-> speakers,
     firstname |-> S_Empty, lastname |-> S_Empty]

\* a talk record with its own firstname/lastname keys (old format)
OldTalk(room, start_time, talk_title, firstname, lastname) ==
    [room |-> room, start_time |-> start_time, talk_title |-> talk_title,
     has_speakers |-> FALSE, speakers |-> <<>>,
     firstname |-> firstname, lastname |-> lastname]

\* the speaker lists of the talks drawn
SpeakerLists ==
    {<<Speaker(S_Fabio, S_Pliger), Speaker(S_Chris, S_Laffra)>>,
     <<Speaker(S_Chris, S_Laffra), Speaker(S_Fabio, S_Pliger)>>,
     <<Speaker(S_John, S_Doe)>>,
     <<Speaker(S_Madonna, S_Dot)>>,
     <<Speaker(S_Empty, S_Dot)>>,
     <<Speaker(S_Empty, S_Empty)>>,
     <<>>}

\* room and start_time of the talks drawn
Slots ==
    {<<S_Rob, S_10_00_am>>, <<S_Fis, S_10_00_am>>, <<S_Rob, S_2_30_pm>>,
     <<S_Rob, S_TBD>>}

\* the talks find_video_for_talk is applied to
MatchTalks ==
    {Talk(sl[1], sl[2], S_Talk, sp) : sl \in Slots, sp \in SpeakerLists}
    \cup {OldTalk(sl[1], sl[2], S_Talk, S_Chris, S_Laffra) : sl \in Slots}

\* the candidate names find_video_for_talk is applied to
MatchFiles ==
    {F_Standard, F_UpperRoom, F_OtherRoom, F_OtherTime, F_Afternoon,
     F_OtherName, F_NoLastname, F_NoTime, F_NoRoom, F_Firstname,
     F_LongLastname, F_PublishedTokens, F_Published, F_ReviewRoom,
     F_ReviewNoRoom, F_Underscore}

\* the names a directory is drawn from
DirectoryFiles ==
    {F_Standard, F_Afternoon, F_NoLastname, F_OtherName, F_Mov, F_UpperExt,
     F_Published, F_ReviewNoRoom, F_Metadata}

\* longest candidate list find_video_for_talk is applied to
MaxCandidates == 2

\* lists of at most n elements of S
RECURSIVE ListsUpTo(_, _)
ListsUpTo(S, n) ==
    IF n = 0 THEN {<<>>}
    ELSE ListsUpTo(S, n - 1)
         \cup {Append(l, x) : l \in {m \in ListsUpTo(S, n - 1) : Len(m) = n - 1},
                              x \in S}

----------------------------------------------------------------------------
(* find_video_for_talk, continued                                          *)

\* extract_tokens_from_filename is a pure function: its value on the names
\* of the runs is computed once
TokenCache ==
    [f \in MatchFiles \cup DirectoryFiles |-> extract_tokens_from_filename(f)]

Tokens(name) ==
    IF name \in DOMAIN TokenCache THEN TokenCache[name]
    ELSE extract_tokens_from_filename(name)

RECURSIVE find_video_for_talk_Last(_, _)
\* find_video_for_talk without the early return: the last passing candidate
find_video_for_talk_Last(t, files) ==
    IF files = <<>> THEN None
    ELSE IF CandidatePasses(t, Tokens(files[Len(files)])) THEN files[Len(files)]
    ELSE find_video_for_talk_Last(t, SubSeq(files, 1, Len(files) - 1))

RECURSIVE find_video_for_talk(_, _)
\* the first candidate, in list order, that passes; None when none does
find_video_for_talk(t, files) ==
    IF files = <<>> THEN None
    ELSE IF CandidatePasses(t, Tokens(Head(files))) THEN Head(files)
    ELSE find_video_for_talk(t, Tail(files))

----------------------------------------------------------------------------
(* generate_new_filename                                                   *)

S_Space == <<" ">>
S_Amp == <<" ", "&", " ">>
S_UnknownSpeaker ==
    <<"U", "n", "k", "n", "o", "w", "n", " ", "S", "p", "e", "a", "k", "e", "r">>
S_PyBayOpen == <<" ", "(", "P", "y", "B", "a", "y", " ">>
S_CloseDot == <<")", ".">>

\* the characters re.sub(r'[<>:"/\\|?*]', '', ...) removes
InvalidChars == {"<", ">", ":", "\"", "/", "\\", "|", "?", "*"}

\* NameParts that keeps the lastname "."
NameParts_KeepsDot(firstname, lastname) ==
    (IF firstname /= <<>> THEN <<firstname>> ELSE <<>>)
    \o (IF lastname /= <<>> THEN <<lastname>> ELSE <<>>)

\* name_parts of one speaker
NameParts(firstname, lastname) ==
    (IF firstname /= <<>> THEN <<firstname>> ELSE <<>>)
    \o (IF lastname /= <<>> /\ lastname /= S_Dot THEN <<lastname>> ELSE <<>>)

RECURSIVE SpeakerNames_KeepsEmpty(_)
\* SpeakerNames that appends the joined name_parts of every speaker
SpeakerNames_KeepsEmpty(speakers) ==
    IF speakers = <<>> THEN <<>>
    ELSE LET name_parts == NameParts(Head(speakers).firstname, Head(speakers).lastname)
         IN  <<Join(S_Space, name_parts)>>
             \o SpeakerNames_KeepsEmpty(Tail(speakers))

RECURSIVE SpeakerNames(_)
\* speaker_names: ' '.join(name_parts) of each speaker that has name_parts
SpeakerNames(speakers) ==
    IF speakers = <<>> THEN <<>>
    ELSE LET name_parts == NameParts(Head(speakers).firstname, Head(speakers).lastname)
         IN  (IF name_parts /= <<>> THEN <<Join(S_Space, name_parts)>> ELSE <<>>)
             \o SpeakerNames(Tail(speakers))

\* speaker_name
SpeakerName(t) ==
    IF t.has_speakers
    THEN IF SpeakerNames(t.speakers) /= <<>>
         THEN Join(S_Amp, SpeakerNames(t.speakers))
         ELSE S_UnknownSpeaker
    ELSE IF NameParts(t.firstname, t.lastname) /= <<>>
         THEN Join(S_Space, NameParts(t.firstname, t.lastname))
         ELSE S_UnknownSpeaker

\* f"{talk_title} — {speaker_name} (PyBay {year}).{extension}"
UnsanitizedFilename(t, y, ext) ==
    t.talk_title \o EmDashSeparator \o SpeakerName(t) \o S_PyBayOpen
    \o StrOfNat(y) \o S_CloseDot \o ext

\* IsValidChar with the backslash missing from the character class
IsValidChar_MissesBackslash(c) == c \notin (InvalidChars \ {"\\"})

\* re.sub(r'[<>:"/\\|?*]', '', new_filename)
IsValidChar(c) == c \notin InvalidChars

IsValidAsciiChar(c) == c \notin InvalidChars /\ c /= EmDash

\* Sanitize that also drops every character outside ASCII
Sanitize_AsciiOnly(name) == SelectSeq(name, IsValidAsciiChar)

Sanitize(name) == SelectSeq(name, IsValidChar)

generate_new_filename(t, y, ext) == Sanitize(UnsanitizedFilename(t, y, ext))

----------------------------------------------------------------------------
(* create_rename_mapping_from_json                                         *)

S_Bang == <<"!">>
S_Keynote == <<"K", "e", "y", "n", "o", "t", "e">>

\* the suffixes of the patterns '*{ext}' and '*{ext.upper()}', in the order
\* in which the directory is globbed
GlobSuffixes ==
    <<<<".", "m", "p", "4">>,
      <<".", "M", "P", "4">>,
      <<".", "m", "o", "v">>,
      <<".", "M", "O", "V">>,
      <<".", "a", "v", "i">>,
      <<".", "A", "V", "I">>,
      <<".", "m", "k", "v">>,
      <<".", "M", "K", "V">>,
      <<".", "w", "e", "b", "m">>,
      <<".", "W", "E", "B", "M">>>>

\* position of the first pattern that lists the name; 0 when none does
GlobIndex(name) ==
    LET hits == {i \in 1..Len(GlobSuffixes) : EndsWith(name, GlobSuffixes[i])}
    IN  IF hits = {} THEN 0 ELSE CHOOSE i \in hits : \A j \in hits : i <= j

\* IsCandidate that lets the flagged names through
IsCandidate_KeepsFlagged(name) ==
    ~(\/ StartsWith(name, S_Underscore)
      \/ Contains(name, EmDashSeparator))

\* the filter on the globbed names: not already renamed, not flagged
IsCandidate(name) ==
    ~(\/ StartsWith(name, S_Underscore)
      \/ StartsWith(name, S_Bang)
      \/ Contains(name, EmDashSeparator))

\* the lists glob() and the filter can leave in video_files: the names are
\* grouped by pattern; within one pattern the order is the file system's
VideoFileLists(dir) ==
    LET found == {f \in dir : GlobIndex(f) > 0 /\ IsCandidate(f)}
    IN  {l \in ListsUpTo(found, Cardinality(found)) :
            /\ {l[i] : i \in 1..Len(l)} = found
            /\ Len(l) = Cardinality(found)
            /\ \A i \in 1..Len(l) : \A j \in i..Len(l) :
                   GlobIndex(l[i]) <= GlobIndex(l[j])}

\* a dict is the list of its <<key, value>> items in insertion order
DictHas(d, k) == \E i \in 1..Len(d) : d[i][1] = k

DictGet(d, k) == d[CHOOSE i \in 1..Len(d) : d[i][1] = k][2]

\* d[k] = v
DictSet(d, k, v) ==
    IF DictHas(d, k)
    THEN [i \in 1..Len(d) |-> IF d[i][1] = k THEN <<k, v>> ELSE d[i]]
    ELSE Append(d, <<k, v>>)

\* unmatched_files = [v for v in video_files if v not in matched_files]
RECURSIVE Unmatched(_, _)
Unmatched(files, matched) ==
    IF files = <<>> THEN <<>>
    ELSE (IF Head(files) \in matched THEN <<>> ELSE <<Head(files)>>)
         \o Unmatched(Tail(files), matched)

RECURSIVE FlagForReview_Inverted(_, _)
\* FlagForReview with the test of the prefix inverted
FlagForReview_Inverted(d, unmatched) ==
    IF unmatched = <<>> THEN d
    ELSE FlagForReview_Inverted(
             IF StartsWith(Head(unmatched), S_ReviewPrefix)
             THEN DictSet(d, Head(unmatched), S_ReviewPrefix \o Head(unmatched))
             ELSE d,
             Tail(unmatched))

\* the loop over unmatched_files that adds the review entries to rename_map
RECURSIVE FlagForReview(_, _)
FlagForReview(d, unmatched) ==
    IF unmatched = <<>> THEN d
    ELSE FlagForReview(
             IF ~StartsWith(Head(unmatched), S_ReviewPrefix)
             THEN DictSet(d, Head(unmatched), S_ReviewPrefix \o Head(unmatched))
             ELSE d,
             Tail(unmatched))

\* the talks create_rename_mapping_from_json is given
PipelineTalks ==
    {Talk(S_Rob, S_10_00_am, S_Talk,
          <<Speaker(S_Fabio, S_Pliger), Speaker(S_Chris, S_Laffra)>>),
     Talk(S_Rob, S_10_00_am, S_PunctTitle, <<>>),
     Talk(S_Rob, S_2_30_pm, S_TokenTitle, <<Speaker(S_John, S_Doe)>>),
     Talk(S_Fis, S_10_00_am, S_Keynote, <<Speaker(S_Fabio, S_Pliger)>>),
     Talk(S_Rob, S_10_00_am, Missing, <<Speaker(S_Chris, S_Laffra)>>)}

\* most files in the directory, most talks in the metadata
MaxDirFiles == 3
MaxTalks == 2

Years == {2024, 2025}

\* what the variables of the other runs hold
Idle == <<"idle">>

RenameVarsIdle ==
    /\ run = Idle /\ dry_run = Idle /\ position = Idle
    /\ success_count = Idle /\ error_count = Idle /\ skip_count = Idle
    /\ completed = Idle

DownloadVarsIdle ==
    /\ all_files = Idle /\ local = Idle /\ existing_count = Idle
    /\ files_to_download = Idle /\ total_stats = Idle /\ workers = Idle
    /\ max_retries = Idle

OpVarsIdle ==
    /\ RenameVarsIdle
    /\ normalized_yt_title = Idle
    /\ DownloadVarsIdle

CallVarsIdle ==
    /\ talk_time = Idle /\ video_file = Idle /\ file_tokens = Idle
    /\ talk_metadata = Idle /\ needs_manual_review = Idle
    /\ OpVarsIdle

InitPipeline ==
    /\ pc = "list"
    /\ directory \in {d \in SUBSET DirectoryFiles : Cardinality(d) <= MaxDirFiles}
    /\ talks \in ListsUpTo(PipelineTalks, MaxTalks)
    /\ year = 2025
    /\ video_files = <<>>
    /\ idx = 0
    /\ rename_map = <<>>
    /\ matched_files = {}
    /\ skipped_talks = <<>>
    /\ unmatched_files = <<>>
    /\ talk = Idle /\ result = Idle /\ extension = Idle /\ new_filename = Idle
    /\ CallVarsIdle

\* lines 347-364: glob the directory, filter, start with empty results
ListVideoFiles ==
    /\ pc = "list"
    /\ video_files' \in VideoFileLists(directory)
    /\ rename_map' = <<>>
    /\ matched_files' = {}
    /\ skipped_talks' = <<>>
    /\ idx' = 0
    /\ pc' = "talks"
    /\ UNCHANGED <<talk, result, year, extension, new_filename, directory, talks,
                   unmatched_files>>
    /\ UNCHANGED callVars

\* lines 367-381: one pass of the loop over talks
ProcessTalk ==
    /\ pc = "talks"
    /\ idx < Len(talks)
    /\ LET t          == talks[idx + 1]
           video_path == find_video_for_talk(t, video_files)
       IN  IF RaisesKeyError(t)
           THEN \* line 289 (match) or line 380 (no match): the KeyError
                \* leaves the function before anything is recorded
                /\ pc' = "raised"
                /\ UNCHANGED <<idx, rename_map, matched_files, skipped_talks>>
           ELSE /\ IF video_path /= None
                   THEN /\ rename_map' =
                               DictSet(rename_map, video_path,
                                       generate_new_filename(t, year,
                                                             Tokens(video_path).extension))
                        /\ matched_files' = matched_files \cup {video_path}
                        /\ UNCHANGED skipped_talks
                   ELSE /\ skipped_talks' = Append(skipped_talks, t.talk_title)
                        /\ UNCHANGED <<rename_map, matched_files>>
                /\ idx' = idx + 1
                /\ UNCHANGED pc
    /\ UNCHANGED <<talk, video_files, result, year, extension, new_filename,
                   directory, talks, unmatched_files>>
    /\ UNCHANGED callVars

\* lines 383-403: flag the unmatched files and return
FlagUnmatched ==
    /\ pc = "talks"
    /\ idx = Len(talks)
    /\ unmatched_files' = Unmatched(video_files, matched_files)
    /\ rename_map' = FlagForReview(rename_map, Unmatched(video_files, matched_files))
    /\ pc' = "returned"
    /\ UNCHANGED <<talk, video_files, result, year, extension, new_filename,
                   directory, talks, idx, matched_files, skipped_talks>>
    /\ UNCHANGED callVars

Next == ListVideoFiles \/ ProcessTalk \/ FlagUnmatched

Init == InitPipeline

Spec == Init /\ [][Next]_vars

----------------------------------------------------------------------------
(* find_video_for_talk applied to any talk and any candidate list          *)

InitMatch ==
    /\ pc = "call"
    /\ talk \in MatchTalks
    /\ video_files \in ListsUpTo(MatchFiles, MaxCandidates)
    /\ result = None
    /\ year = Idle /\ extension = Idle /\ new_filename = Idle
    /\ directory = Idle /\ talks = Idle /\ idx = Idle /\ rename_map = Idle
    /\ matched_files = Idle /\ skipped_talks = Idle /\ unmatched_files = Idle
    /\ CallVarsIdle

FindVideoForTalk ==
    /\ pc = "call"
    /\ result' = find_video_for_talk(talk, video_files)
    /\ pc' = "returned"
    /\ UNCHANGED <<talk, video_files, year, extension, new_filename, directory,
                   talks, idx, rename_map, matched_files, skipped_talks,
                   unmatched_files>>
    /\ UNCHANGED callVars

NextMatch == FindVideoForTalk

SpecMatch == InitMatch /\ [][NextMatch]_vars

----------------------------------------------------------------------------
(* generate_new_filename applied to any talk, and its result offered to    *)
(* find_video_for_talk                                                     *)

\* the talks generate_new_filename is applied to
GenTalks ==
    {Talk(S_Rob, S_10_00_am, title, sp) :
        title \in {S_Talk, S_TokenTitle, S_PunctTitle},
        sp \in SpeakerLists
               \cup {<<Speaker(S_Glyph, S_Lefkowitz)>>,
                     <<Speaker(S_Zac, S_Empty)>>,
                     <<Speaker(S_Madonna, S_Dot), Speaker(S_Chris, S_Laffra),
                       Speaker(S_Empty, S_Doe)>>,
                     <<Speaker(S_Chris, S_Laffra), Speaker(S_Empty, S_Dot),
                       Speaker(S_John, S_Doe)>>,
                     <<Speaker(S_Empty, S_Empty), Speaker(S_Empty, S_Dot)>>}}
    \cup {OldTalk(S_Rob, S_10_00_am, S_TokenTitle, S_Chris, S_Laffra),
          OldTalk(S_Rob, S_10_00_am, S_Talk, S_Empty, S_Dot)}

Extensions == {S_mp4, S_mov, S_Empty}

InitGen ==
    /\ pc = "call"
    /\ talk \in GenTalks
    /\ year \in Years
    /\ extension \in Extensions
    /\ new_filename = None
    /\ video_files = <<>>
    /\ result = None
    /\ directory = Idle /\ talks = Idle /\ idx = Idle /\ rename_map = Idle
    /\ matched_files = Idle /\ skipped_talks = Idle /\ unmatched_files = Idle
    /\ CallVarsIdle

GenerateNewFilename ==
    /\ pc = "call"
    /\ new_filename' = generate_new_filename(talk, year, extension)
    /\ pc' = "generated"
    /\ UNCHANGED <<talk, video_files, result, year, extension, directory, talks,
                   idx, rename_map, matched_files, skipped_talks, unmatched_files>>
    /\ UNCHANGED callVars

\* a later search for any talk finds the generated name among the candidates
FindVideoAmongGenerated ==
    /\ pc = "generated"
    /\ \E t \in GenTalks :
          /\ talk' = t
          /\ video_files' = <<new_filename>>
          /\ result' = find_video_for_talk(t, <<new_filename>>)
    /\ pc' = "searched"
    /\ UNCHANGED <<year, extension, new_filename, directory, talks, idx,
                   rename_map, matched_files, skipped_talks, unmatched_files>>
    /\ UNCHANGED callVars

NextGen == GenerateNewFilename \/ FindVideoAmongGenerated

SpecGen == InitGen /\ [][NextGen]_vars

----------------------------------------------------------------------------
(* normalize_time_to_24h applied to any time string                        *)

\* most digits of a time string beyond the four of HHMM
MaxExtraDigits == 1

\* the digit strings of exactly n digits drawn from D
DigitStrings(D, n) == [1..n -> D]

\* the digits of the time strings drawn: every string of one to four
\* digits, and longer ones out of three digits
TimeDigitStrings ==
    UNION {DigitStrings(Digits, n) : n \in 1..4}
    \cup UNION {DigitStrings({"0", "1", "9"}, 4 + n) : n \in 1..MaxExtraDigits}

\* the digits as they are, and with a colon before the last two
ColonForms(ds) ==
    {ds} \cup (IF Len(ds) \in {3, 4}
               THEN {SubSeq(ds, 1, Len(ds) - 2) \o <<":">>
                     \o SubSeq(ds, Len(ds) - 1, Len(ds))}
               ELSE {})

\* what follows the digits
TimeSuffixes ==
    {<<>>, S_am, S_pm, <<" ">> \o S_am, <<" ">> \o S_pm, <<" ", "P", "M">>}

\* time strings of other shapes
S_noon ==
    <<"n", "o", "o", "n">>

S_p_m_ ==
    <<"2", ":", "3", "0", " ", "p", ".", "m", ".">>

S_10_30_dot ==
    <<"1", "0", ".", "3", "0">>

S_at_9 ==
    <<"a", "t", " ", "9", " ", "o", "'", "c", "l", "o", "c", "k">>

S_2_30_pm_Amphitheater ==
    <<"2", ":", "3", "0", " ", "p", "m", " ", "A", "m", "p", "h", "i", "t",
      "h", "e", "a", "t", "e", "r">>

OtherTimeStrings ==
    {S_Empty, S_TBD, S_noon, S_p_m_, S_10_30_dot, S_at_9,
     S_2_30_pm_Amphitheater}

\* the time strings normalize_time_to_24h is applied to: the digits ds, as
\* they are or with the colon, followed by the suffix
TimeStrings(ds, suffix) == {form \o suffix : form \in ColonForms(ds)}

InitTime ==
    /\ pc = "call"
    /\ \/ \E ds \in TimeDigitStrings, suffix \in TimeSuffixes :
              talk_time \in TimeStrings(ds, suffix)
       \/ talk_time \in OtherTimeStrings
    /\ result = None
    /\ talk = Idle /\ video_files = Idle
    /\ year = Idle /\ extension = Idle /\ new_filename = Idle
    /\ directory = Idle /\ talks = Idle /\ idx = Idle /\ rename_map = Idle
    /\ matched_files = Idle /\ skipped_talks = Idle /\ unmatched_files = Idle
    /\ video_file = Idle /\ file_tokens = Idle
    /\ talk_metadata = Idle /\ needs_manual_review = Idle
    /\ OpVarsIdle

NormalizeTimeTo24h ==
    /\ pc = "call"
    /\ result' = normalize_time_to_24h(talk_time)
    /\ pc' = "returned"
    /\ UNCHANGED <<talk, video_files, year, extension, new_filename, directory,
                   talks, idx, rename_map, matched_files, skipped_talks,
                   unmatched_files, talk_time, video_file, file_tokens,
                   talk_metadata, needs_manual_review>>
    /\ UNCHANGED opVars

NextTime == NormalizeTimeTo24h

SpecTime == InitTime /\ [][NextTime]_vars

----------------------------------------------------------------------------
(* extract_tokens_from_filename applied to any file name                   *)

S_Fisher ==
    <<"F", "i", "s", "h", "e", "r">>
S_1030 ==
    <<"1", "0", "3", "0">>
S_Hatfield_Dodds ==
    <<"H", "a", "t", "f", "i", "e", "l", "d", "-", "D", "o", "d", "d", "s">>
S_Smith_Jones_Lee ==
    <<"S", "m", "i", "t", "h", "-", "J", "o", "n", "e", "s", "-", "L", "e",
      "e">>
S_TestingTools ==
    <<"T", "e", "s", "t", "i", "n", "g", " ", "T", "o", "o", "l", "s">>
S_ReTesting ==
    <<"R", "e", "-", "T", "e", "s", "t", "i", "n", "g">>
S_FieldSeparator ==
    <<" ", "-", " ">>
S_Hyphen ==
    <<"-">>
S_HyphenSpace ==
    <<"-", " ">>

\* the fields of the names drawn: Room, Time, LastName, Title, ext
TokRooms == {S_Fisher, S_Rob}
TokTimes == {S_1030, S_230pm, S_10_00_am}
TokLastnames == {S_Hatfield_Dodds, S_Smith_Jones_Lee, S_Laffra}
TokTitles == {S_TestingTools, S_ReTesting}
TokExtensions == {S_mp4, S_mov}

\* what stands between two fields: ' - ' as expected, or something else
TokSeparators == {S_FieldSeparator, S_Hyphen, S_HyphenSpace, S_Space}

\* {Room}{sep}{Time}{sep}{LastName}{sep}{Title}.ext
FileNameOf(room, sep1, time, sep2, lastname, sep3, title, ext) ==
    room \o sep1 \o time \o sep2 \o lastname \o sep3 \o title \o S_Dot \o ext

\* the file names extract_tokens_from_filename is applied to
TokFileNames ==
    {FileNameOf(r, s[1], t, s[2], l, s[3], ti, e) :
        r \in TokRooms, t \in TokTimes, l \in TokLastnames, ti \in TokTitles,
        e \in TokExtensions, s \in TokSeparators \X TokSeparators \X TokSeparators}

InitTok ==
    /\ pc = "call"
    /\ video_file \in TokFileNames
    /\ file_tokens = None
    /\ talk = Idle /\ video_files = Idle /\ result = Idle
    /\ year = Idle /\ extension = Idle /\ new_filename = Idle
    /\ directory = Idle /\ talks = Idle /\ idx = Idle /\ rename_map = Idle
    /\ matched_files = Idle /\ skipped_talks = Idle /\ unmatched_files = Idle
    /\ talk_time = Idle
    /\ talk_metadata = Idle /\ needs_manual_review = Idle
    /\ OpVarsIdle

ExtractTokensFromFilename ==
    /\ pc = "call"
    /\ file_tokens' = extract_tokens_from_filename(video_file)
    /\ pc' = "returned"
    /\ UNCHANGED <<talk, video_files, result, year, extension, new_filename,
                   directory, talks, idx, rename_map, matched_files,
                   skipped_talks, unmatched_files, talk_time, video_file,
                   talk_metadata, needs_manual_review>>
    /\ UNCHANGED opVars

NextTok == ExtractTokensFromFilename

SpecTok == InitTok /\ [][NextTok]_vars

----------------------------------------------------------------------------
(* match_speaker_with_fuzzy_matching                                       *)

S_Quote == <<"\"">>
S_Comma == <<",">>
S_by == <<"b", "y">>
S_PyBayParen == <<"(", "P", "y", "B", "a", "y", " ">>

\* does \(PyBay \d{4}\) match s at position g
YearTagAt(s, g) ==
    /\ g + 12 <= Len(s)
    /\ Slice(s, g, g + 7) = S_PyBayParen
    /\ \A i \in 8..11 : IsDigit(s[g + i])
    /\ s[g + 12] = ")"

\* the places <<c, d>> of s where (?:--|-|by) matches s[c:d], the em dash
\* only when with_dash
SeparatorsIn(s, with_dash) ==
    {<<c, c + 1>> : c \in {i \in 0..(Len(s) - 1) :
                              \/ s[i + 1] = "-"
                              \/ with_dash /\ s[i + 1] = EmDash}}
    \cup {<<c, c + 2>> : c \in {i \in 0..(Len(s) - 2) : Slice(s, i, i + 2) = S_by}}

\* does \s* match exactly s[e:c]
SpaceGap(s, e, c) == \A i \in (e + 1)..c : IsSpace(s[i])

\* does "?\s* match exactly s[e:c]
QuoteGap(s, e, c) ==
    \/ SpaceGap(s, e, c)
    \/ e < c /\ s[e + 1] = "\"" /\ SpaceGap(s, e + 1, c)

\* may the leading "? take q1 characters at position p
LeadingQuote(s, p, q1) == q1 = 1 => (p < Len(s) /\ s[p + 1] = "\"")

\* a character of [\w\s"',\-]
IsSpeakerChar(c) == IsWordChar(c) \/ IsSpace(c) \/ c \in {"\"", "'", ",", "-"}

\* a < b in the lexicographic order of tuples of integers of one length
LexLess(a, b) ==
    \E i \in 1..Len(a) : a[i] < b[i] /\ \A j \in 1..(i - 1) : a[j] = b[j]

\* the match the regex engine prefers among pairs <<key, match>>: the one
\* of the least key
Preferred(keyed) ==
    (CHOOSE m \in keyed : \A n \in keyed \ {m} : LexLess(m[1], n[1]))[2]

\* The matches of  "?(.+?)"?\s*(?:--|--|-|by)\s*(.+?)\s*\(PyBay \d{4}\)
\* that start at p: <<q1, e1, c, f, e2, g>> with group 1 = s[p+q1:e1], the
\* separator at c, group 2 = s[f:e2] and the year tag at g
QuotedAlt1At(s, p) ==
    UNION {UNION {{<<m[1], m[2], occ[1], m[3], m[4], g>> :
                      m \in {x \in (0..1) \X ((p + 1)..occ[1])
                                    \X (occ[2]..(occ[2] + SpaceRun(s, occ[2])))
                                    \X ((occ[2] + 1)..g) :
                                /\ LeadingQuote(s, p, x[1])
                                /\ x[2] > p + x[1]
                                /\ QuoteGap(s, x[2], occ[1])
                                /\ x[3] < x[4]
                                /\ SpaceGap(s, x[4], g)}} :
                  g \in {i \in 0..Len(s) : YearTagAt(s, i)}} :
           occ \in SeparatorsIn(s, TRUE)}

\* leading quote taken, group 1 lazy, both \s* greedy, group 2 lazy
QuotedAlt1Key(m) == <<1 - m[1], m[2], 0 - m[3], 0 - m[4], m[5], 0 - m[6]>>

\* The matches of  "?(.+)"?\s*(?:-|by)\s*([\w\s"',\-]+)  that start at p:
\* <<q1, e1, c, f, e2>> with group 3 = s[p+q1:e1], the separator at c and
\* group 4 = s[f:e2]
QuotedAlt2At(s, p) ==
    UNION {{<<m[1], m[2], occ[1], m[3], m[4]>> :
               m \in {x \in (0..1) \X ((p + 1)..occ[1])
                             \X (occ[2]..(occ[2] + SpaceRun(s, occ[2])))
                             \X ((occ[2] + 1)..Len(s)) :
                         /\ LeadingQuote(s, p, x[1])
                         /\ x[2] > p + x[1]
                         /\ QuoteGap(s, x[2], occ[1])
                         /\ x[3] < x[4]
                         /\ \A i \in (x[3] + 1)..x[4] : IsSpeakerChar(s[i])}} :
           occ \in SeparatorsIn(s, FALSE)}

\* leading quote taken, group 3 greedy, both \s* greedy, group 4 greedy
QuotedAlt2Key(m) == <<1 - m[1], 0 - m[2], 0 - m[3], 0 - m[4], 0 - m[5]>>

RECURSIVE QuotedTitleSearchFrom(_, _)
\* the match of QUOTED_TITLE_RE that starts at p or, failing that, at the
\* next position that has one: the first alternative before the second
QuotedTitleSearchFrom(s, p) ==
    IF p > Len(s) THEN None
    ELSE IF QuotedAlt1At(s, p) /= {}
    THEN LET m == Preferred({<<QuotedAlt1Key(x), x>> : x \in QuotedAlt1At(s, p)})
         IN  <<Slice(s, p + m[1], m[2]), Slice(s, m[4], m[5]), None, None>>
    ELSE IF QuotedAlt2At(s, p) /= {}
    THEN LET m == Preferred({<<QuotedAlt2Key(x), x>> : x \in QuotedAlt2At(s, p)})
         IN  <<None, None, Slice(s, p + m[1], m[2]), Slice(s, m[4], m[5])>>
    ELSE QuotedTitleSearchFrom(s, p + 1)

\* QUOTED_TITLE_RE.search(s): None, or match.groups()
QuotedTitleSearch(s) ==
    IF SeparatorsIn(s, TRUE) = {} THEN None ELSE QuotedTitleSearchFrom(s, 0)

RECURSIVE Split(_, _)
\* s.split(c) for a separator of one character
Split(s, c) ==
    IF \E i \in 1..Len(s) : s[i] = c
    THEN LET i == CHOOSE k \in 1..Len(s) : s[k] = c /\ \A j \in 1..(k - 1) : s[j] /= c
         IN  <<SubSeq(s, 1, i - 1)>> \o Split(SubSeq(s, i + 1, Len(s)), c)
    ELSE <<s>>

\* does \(pybay \d{4}\) match s at 0-based position g, with re.IGNORECASE
PybayTagAt(s, g) ==
    /\ g + 12 <= Len(s)
    /\ Lower(Slice(s, g, g + 7)) = Lower(S_PyBayParen)
    /\ \A i \in 8..11 : IsDigit(s[g + i])
    /\ s[g + 12] = ")"

\* s[a:b] is whitespace, or empty
AllSpace(s, a, b) == \A i \in (a + 1)..b : IsSpace(s[i])

RECURSIVE RemovePybayTags(_)
\* re.sub(r'\s*\(pybay \d{4}\)', '', s, flags=re.IGNORECASE): every match,
\* from the left, each with the whitespace before it
RemovePybayTags(s) ==
    LET starts == {p \in 0..Len(s) :
                      \E g \in p..Len(s) : AllSpace(s, p, g) /\ PybayTagAt(s, g)}
    IN  IF starts = {} THEN s
        ELSE LET p == CHOOSE a \in starts : \A b \in starts : a <= b
                 g == CHOOSE a \in p..Len(s) :
                          AllSpace(s, p, a) /\ PybayTagAt(s, a)
             IN  Slice(s, 0, p) \o RemovePybayTags(Slice(s, g + 12, Len(s)))

\* the class [em-dash en-dash hyphen] of line 364
DashChars == {EmDash, EnDash, "-"}

\* re.sub(r'\s*[...]\s*.+$', '', s) for a title of one line: the leftmost
\* match starts at the whitespace before the first dash that has a
\* character after it, and .+$ takes the rest of the title
RemoveSpeakerSuffix(s) ==
    LET dashes == {k \in 1..(Len(s) - 1) : s[k] \in DashChars}
    IN  IF dashes = {} THEN s
        ELSE LET k == CHOOSE a \in dashes : \A b \in dashes : a <= b
                 starts == {p \in 0..(k - 1) : AllSpace(s, p, k - 1)}
             IN  Slice(s, 0, CHOOSE a \in starts : \A b \in starts : a <= b)

\* lines 360-365
NormalizedYtTitle(title) ==
    Strip(RemoveSpeakerSuffix(RemovePybayTags(Strip(Lower(title)))))

\* a Talk as create_talk_from_youtube_metadata returns it: the YouTube
\* title, and speakers left at the default, the empty list
YouTubeTalk(title) == [title |-> title, speakers |-> <<>>]

\* an item of talk_metadata: the key, the scraped title and speakers, and
\* partial_ratio, what fuzz.partial_ratio(normalized_yt_title, key) of the
\* rapidfuzz library returns for that key
Metadata(key, title, speakers, partial_ratio) ==
    [key |-> key, title |-> title, speakers |-> speakers,
     partial_ratio |-> partial_ratio]

RECURSIVE BestMatch(_, _, _)
\* the loop over talk_metadata.items(): <<best_score, metadata_match>>,
\* metadata_match being <<>> for None and <<metadata>> otherwise
BestMatch(items, best_score, metadata_match) ==
    IF items = <<>> THEN <<best_score, metadata_match>>
    ELSE IF Head(items).partial_ratio > best_score
         THEN BestMatch(Tail(items), Head(items).partial_ratio, <<Head(items)>>)
         ELSE BestMatch(Tail(items), best_score, metadata_match)

\* MetadataMatch that wants a score above 95
MetadataMatch_StrictlyAbove(items) ==
    IF items = <<>> THEN <<>>
    ELSE LET best == BestMatch(items, 0, <<>>)
         IN  IF best[1] > 95 THEN best[2] ELSE <<>>

\* metadata_match after 'if talk_metadata:': the best match, if its score
\* is at least 95
MetadataMatch(items) ==
    IF items = <<>> THEN <<>>
    ELSE LET best == BestMatch(items, 0, <<>>)
         IN  IF best[1] >= 95 THEN best[2] ELSE <<>>

\* NoSpeakerFound that returns the talk without the flag
NoSpeakerFound_Unflagged(t) == [talk |-> t, needs_manual_review |-> FALSE]

\* 'MANUAL REVIEW NEEDED': return talk, True
NoSpeakerFound(t) == [talk |-> t, needs_manual_review |-> TRUE]

RECURSIVE StripEach(_)
\* s.strip() for s in parts
StripEach(parts) ==
    IF parts = <<>> THEN <<>>
    ELSE <<Strip(Head(parts))>> \o StripEach(Tail(parts))

\* the regex fallback: title and speaker of the title pattern
RegexFallback(t, title, speaker) ==
    [talk |-> [title    |-> Strip(title),
               speakers |-> t.speakers \o StripEach(Split(speaker, ","))],
     needs_manual_review |-> FALSE]

\* YouTube titles
Y_Keynote ==
    <<"K", "e", "y", "n", "o", "t", "e">>
Y_OpeningRemarks ==
    <<"O", "p", "e", "n", "i", "n", "g", " ", "R", "e", "m", "a", "r", "k",
      "s">>
Y_Published ==
    <<"M", "y", " ", "T", "a", "l", "k", " ", EmDash, " ", "J", "a", "n",
      "e", " ", "D", "o", "e", " ", "(", "P", "y", "B", "a", "y", " ", "2",
      "0", "2", "5", ")">>
Y_Legacy ==
    <<"\"", "M", "y", " ", "T", "a", "l", "k", "\"", " ", "-", " ", "J",
      "a", "n", "e", " ", "D", "o", "e">>
Y_RubyTips ==
    <<"R", "u", "b", "y", " ", "T", "i", "p", "s">>
Y_TwoSpeakers ==
    <<"M", "y", " ", "T", "a", "l", "k", " ", EmDash, " ", "J", "a", "n",
      "e", " ", "D", "o", "e", ",", " ", "J", "o", "h", "n", " ", "D", "o",
      "e", " ", "(", "P", "y", "B", "a", "y", " ", "2", "0", "2", "4", ")">>
Y_NoSpeaker ==
    <<"M", "y", " ", "T", "a", "l", "k", " ", "-">>
Y_AsyncFirst ==
    <<"A", "s", "y", "n", "c", "-", "f", "i", "r", "s", "t", " ", "D", "e",
      "s", "i", "g", "n", " ", EmDash, " ", "J", "a", "n", "e", " ", "D",
      "o", "e", " ", "(", "P", "y", "B", "a", "y", " ", "2", "0", "2", "5",
      ")">>

YouTubeTitles ==
    {Y_Keynote, Y_OpeningRemarks, Y_Published, Y_Legacy,
     Y_RubyTips, Y_TwoSpeakers, Y_NoSpeaker, Y_AsyncFirst}

\* QUOTED_TITLE_RE.search(talk.title) of the titles drawn
QuotedTitleCache == [title \in YouTubeTitles |-> QuotedTitleSearch(title)]

QuotedTitleGroups(title) == QuotedTitleCache[title]

match_speaker_with_fuzzy_matching(t, items) ==
    LET metadata_match == MetadataMatch(items)
        groups         == QuotedTitleGroups(t.title)
    IN  IF metadata_match /= <<>>
        THEN [talk |-> [title    |-> metadata_match[1].title,
                        speakers |-> metadata_match[1].speakers],
              needs_manual_review |-> FALSE]
        ELSE IF Len(groups) = 4
        THEN IF Truthy(groups[1]) /\ Truthy(groups[2])
             THEN RegexFallback(t, groups[1], groups[2])
             ELSE IF Truthy(groups[3]) /\ Truthy(groups[4])
             THEN RegexFallback(t, groups[3], groups[4])
             ELSE NoSpeakerFound(t)
        ELSE NoSpeakerFound(t)

S_MyTalk ==
    <<"M", "y", " ", "T", "a", "l", "k">>
S_my_talk ==
    <<"m", "y", " ", "t", "a", "l", "k">>
S_JaneDoe ==
    <<"J", "a", "n", "e", " ", "D", "o", "e">>
S_KeynoteTitle ==
    <<"K", "e", "y", "n", "o", "t", "e", ":", " ", "T", "h", "e", " ", "F",
      "u", "t", "u", "r", "e">>
S_keynote_key ==
    <<"k", "e", "y", "n", "o", "t", "e", " ", "t", "h", "e", " ", "f", "u",
      "t", "u", "r", "e">>
S_ChrisLaffra ==
    <<"C", "h", "r", "i", "s", " ", "L", "a", "f", "f", "r", "a">>
S_FabioPliger ==
    <<"F", "a", "b", "i", "o", " ", "P", "l", "i", "g", "e", "r">>
S_LightningTalks ==
    <<"L", "i", "g", "h", "t", "n", "i", "n", "g", " ", "T", "a", "l", "k",
      "s">>
S_lightning_talks ==
    <<"l", "i", "g", "h", "t", "n", "i", "n", "g", " ", "t", "a", "l", "k",
      "s">>

\* scores of fuzz.partial_ratio
Scores == {0, 60, 94, 95, 100}

\* the scraped talks: key, title, speakers
ScrapedTalks ==
    {<<S_my_talk, S_MyTalk, <<S_JaneDoe>>>>,
     <<S_keynote_key, S_KeynoteTitle, <<S_ChrisLaffra, S_FabioPliger>>>>,
     <<S_lightning_talks, S_LightningTalks, <<>>>>}

MetadataItems ==
    {Metadata(st[1], st[2], st[3], score) : st \in ScrapedTalks, score \in Scores}

\* most items of talk_metadata
MaxCatalog == 2

\* a dict has each key once
DistinctKeys(items) ==
    \A i, j \in 1..Len(items) : items[i].key = items[j].key => i = j

\* the dicts talk_metadata is drawn from, in insertion order
Catalogs == {items \in ListsUpTo(MetadataItems, MaxCatalog) : DistinctKeys(items)}

InitFuzzy ==
    /\ pc = "call"
    /\ talk \in {YouTubeTalk(title) : title \in YouTubeTitles}
    /\ talk_metadata \in Catalogs
    /\ result = None
    /\ needs_manual_review = None
    /\ video_files = Idle
    /\ year = Idle /\ extension = Idle /\ new_filename = Idle
    /\ directory = Idle /\ talks = Idle /\ idx = Idle /\ rename_map = Idle
    /\ matched_files = Idle /\ skipped_talks = Idle /\ unmatched_files = Idle
    /\ talk_time = Idle /\ video_file = Idle /\ file_tokens = Idle
    /\ RenameVarsIdle
    /\ DownloadVarsIdle
    /\ normalized_yt_title = None

MatchSpeakerWithFuzzyMatching ==
    /\ pc = "call"
    /\ normalized_yt_title' = NormalizedYtTitle(talk.title)
    /\ LET returned == match_speaker_with_fuzzy_matching(talk, talk_metadata)
       IN  /\ result' = returned.talk
           /\ needs_manual_review' = returned.needs_manual_review
    /\ pc' = "returned"
    /\ UNCHANGED <<talk, video_files, year, extension, new_filename, directory,
                   talks, idx, rename_map, matched_files, skipped_talks,
                   unmatched_files, talk_time, video_file, file_tokens,
                   talk_metadata>>
    /\ UNCHANGED <<renameVars, downloadVars>>

NextFuzzy == MatchSpeakerWithFuzzyMatching

SpecFuzzy == InitFuzzy /\ [][NextFuzzy]_vars

----------------------------------------------------------------------------
(* rename_files and the runs of main (specification SpecRename)            *)

\* new_path.exists()
TargetExists_Never(dir, name) == FALSE

TargetExists(dir, name) == name \in dir

\* old_path.rename(new_path) when it succeeds: the name old_name is gone and
\* the name new_name is that file, whatever new_name was before
Rename(dir, old_name, new_name) == (dir \ {old_name}) \cup {new_name}

\* the names rename_files is given when it is called on its own
RenameNames == {F_Standard, F_Mov, F_Published, S_ReviewPrefix \o F_Standard}

\* most items of a rename_map given to rename_files on its own
MaxRenames == 2

\* the dicts of at most n items over the names: no key twice
RenameMaps(names, n) ==
    {m \in ListsUpTo(names \X names, n) :
        \A i \in 1..Len(m) : \A j \in 1..Len(m) : m[i][1] = m[j][1] => i = j}

\* the files and the talks of the runs of main
RunDirectoryFiles ==
    {F_Standard, F_OtherName, F_UpperExt, F_Published, F_ReviewRoom}

RunTalks ==
    {Talk(S_Rob, S_10_00_am, S_Talk,
          <<Speaker(S_Fabio, S_Pliger), Speaker(S_Chris, S_Laffra)>>),
     Talk(S_Rob, S_2_30_pm, S_TokenTitle, <<Speaker(S_John, S_Doe)>>),
     Talk(S_Rob, S_10_00_am, Missing, <<Speaker(S_Chris, S_Laffra)>>)}

InitRename ==
    /\ \/ \* main: a first run over a directory
          /\ pc = "list"
          /\ run = 1
          /\ directory \in {d \in SUBSET RunDirectoryFiles :
                                Cardinality(d) <= MaxDirFiles}
          /\ talks \in ListsUpTo(RunTalks, MaxTalks)
          /\ year = 2025
          /\ rename_map = <<>>
          /\ idx = 0
          /\ matched_files = {}
          /\ skipped_talks = <<>>
          /\ unmatched_files = <<>>
       \/ \* rename_files called on its own
          /\ pc = "rename_files"
          /\ run = 0
          /\ directory \in SUBSET RenameNames
          /\ rename_map \in RenameMaps(RenameNames, MaxRenames)
          /\ talks = Idle /\ year = Idle /\ idx = Idle
          /\ matched_files = Idle /\ skipped_talks = Idle
          /\ unmatched_files = Idle
    /\ dry_run \in BOOLEAN
    /\ position = 0
    /\ success_count = 0
    /\ error_count = 0
    /\ skip_count = 0
    /\ completed = <<>>
    /\ video_files = <<>>
    /\ talk = Idle /\ result = Idle /\ extension = Idle /\ new_filename = Idle
    /\ talk_time = Idle /\ video_file = Idle /\ file_tokens = Idle
    /\ talk_metadata = Idle /\ needs_manual_review = Idle
    /\ normalized_yt_title = Idle
    /\ DownloadVarsIdle

\* main, lines 612-618: rename_files is called unless rename_map is empty
MainRenames ==
    /\ pc = "returned"
    /\ rename_map /= <<>>
    /\ pc' = "rename_files"
    /\ UNCHANGED <<talk, video_files, result, year, extension, new_filename,
                   directory, talks, idx, rename_map, matched_files,
                   skipped_talks, unmatched_files>>
    /\ UNCHANGED callVars

\* rename_files, lines 496-503: a dry run returns at once
RenameFiles ==
    /\ pc = "rename_files"
    /\ pc' = IF dry_run THEN "renamed" ELSE "rename"
    /\ position' = 0
    /\ success_count' = 0
    /\ error_count' = 0
    /\ skip_count' = 0
    /\ UNCHANGED <<talk, video_files, result, year, extension, new_filename,
                   directory, talks, idx, rename_map, matched_files,
                   skipped_talks, unmatched_files, talk_time, video_file,
                   file_tokens, talk_metadata, needs_manual_review, run,
                   dry_run, completed, normalized_yt_title,
                   downloadVars>>

\* rename_files, lines 505-520: one item of rename_map.items()
RenameNext ==
    /\ pc = "rename"
    /\ position < Len(rename_map)
    /\ LET old_name == rename_map[position + 1][1]
           new_name == rename_map[position + 1][2]
       IN  IF TargetExists(directory, new_name)
           THEN \* line 510: [SKIP]
                /\ skip_count' = skip_count + 1
                /\ UNCHANGED <<directory, success_count, error_count>>
           ELSE \/ \* line 515: the rename succeeds
                   /\ old_name \in directory
                   /\ directory' = Rename(directory, old_name, new_name)
                   /\ success_count' = success_count + 1
                   /\ UNCHANGED <<error_count, skip_count>>
                \/ \* line 518: the rename raises (no such file, or the
                   \* file system refuses)
                   /\ error_count' = error_count + 1
                   /\ UNCHANGED <<directory, success_count, skip_count>>
    /\ position' = position + 1
    /\ UNCHANGED <<pc, talk, video_files, result, year, extension,
                   new_filename, talks, idx, rename_map, matched_files,
                   skipped_talks, unmatched_files, talk_time, video_file,
                   file_tokens, talk_metadata, needs_manual_review, run,
                   dry_run, completed, normalized_yt_title,
                   downloadVars>>

\* rename_files, line 522: the loop is over
RenameDone ==
    /\ pc = "rename"
    /\ position = Len(rename_map)
    /\ pc' = "renamed"
    /\ completed' = Append(completed, <<success_count, error_count, skip_count>>)
    /\ UNCHANGED <<talk, video_files, result, year, extension, new_filename,
                   directory, talks, idx, rename_map, matched_files,
                   skipped_talks, unmatched_files, talk_time, video_file,
                   file_tokens, talk_metadata, needs_manual_review, run,
                   dry_run, position, success_count, error_count, skip_count,
                   normalized_yt_title,
                   downloadVars>>

\* main is run again on the same directory with the same metadata, after a
\* run that ended at line 614 or after rename_files
Rerun ==
    /\ run = 1
    /\ \/ pc = "renamed"
       \/ pc = "returned" /\ rename_map = <<>>
    /\ run' = 2
    /\ pc' = "list"
    /\ video_files' = <<>>
    /\ rename_map' = <<>>
    /\ idx' = 0
    /\ matched_files' = {}
    /\ skipped_talks' = <<>>
    /\ unmatched_files' = <<>>
    /\ UNCHANGED <<talk, result, year, extension, new_filename, directory,
                   talks, talk_time, video_file, file_tokens, talk_metadata,
                   needs_manual_review, dry_run, position, success_count,
                   error_count, skip_count, completed, normalized_yt_title,
                   downloadVars>>

NextRename ==
    \/ ListVideoFiles \/ ProcessTalk \/ FlagUnmatched
    \/ MainRenames \/ RenameFiles \/ RenameNext \/ RenameDone \/ Rerun

SpecRename == InitRename /\ [][NextRename]_vars

----------------------------------------------------------------------------
(* fix_missing_pybay_prefix (specification SpecPrefix)                     *)

\* where $ matches: at the end of the string and before a final newline
LineEnds(s) ==
    {Len(s)} \cup (IF s /= <<>> /\ s[Len(s)] = "\n" THEN {Len(s) - 1} ELSE {})

\* the lookahead PyBay\s at 0-based position g
PyBayAhead(s, g) ==
    /\ g + 6 <= Len(s)
    /\ Slice(s, g, g + 5) = <<"P", "y", "B", "a", "y">>
    /\ IsSpace(s[g + 6])

\* YearPatternAt without (\.\w+)$: any (YYYY) of the name
YearPatternAt_AnyYear(s, p) ==
    {[start |-> p, year |-> Slice(s, p + 1, p + 5),
      extension |-> <<>>, end |-> p + 6] :
        e \in {e \in {p + 6} :
                  /\ e <= Len(s)
                  /\ s[p + 1] = "("
                  /\ \A i \in 2..5 : IsDigit(s[p + i])
                  /\ s[p + 6] = ")"}}

\* the matches of \((?!PyBay\s)(\d{4})\)(\.\w+)$ that start at 0-based
\* position p: \w+ has to reach a place where $ matches
YearPatternAt(s, p) ==
    {[start |-> p, year |-> Slice(s, p + 1, p + 5),
      extension |-> Slice(s, p + 6, e), end |-> e] :
        e \in {e \in LineEnds(s) :
                  /\ p + 8 <= e
                  /\ s[p + 1] = "("
                  /\ ~PyBayAhead(s, p + 1)
                  /\ \A i \in 2..5 : IsDigit(s[p + i])
                  /\ s[p + 6] = ")"
                  /\ s[p + 7] = "."
                  /\ \A i \in (p + 8)..e : IsWordChar(s[i])}}

\* re.search: the match at the leftmost position that has one, as the set
\* of its one element; {} when the pattern matches nowhere
YearSearch(s) ==
    LET hits == {p \in 0..Len(s) : YearPatternAt(s, p) /= {}}
    IN  IF hits = {} THEN {}
        ELSE YearPatternAt(s, CHOOSE p \in hits : \A r \in hits : p <= r)

\* re.search and re.sub of the pattern; a match ends where $ matches, so no
\* second match follows it and re.sub replaces that one match
fix_missing_pybay_prefix(filename) ==
    LET found == YearSearch(filename)
    IN  IF found = {} THEN None
        ELSE LET match == CHOOSE m \in found : TRUE
             IN  Slice(filename, 0, match.start)
                 \o S_PyBayParen \o match.year \o <<")">> \o match.extension
                 \o Slice(filename, match.end, Len(filename))

\* the names fix_missing_pybay_prefix is applied to: title and speaker,
\* year tag, extension
PrefixTitles ==
    {<<"T", " ", EmDash, " ", "C", "h", "r", "i", "s", " ", "L", "a", "f", "f", "r", "a">>,
     <<"P", "y", "t", "h", "o", "n", " ", "2", "0", "2", "5", " ", "T", "r", "e", "n", "d", "s", " ", EmDash, " ", "J", "o", "h", "n", " ", "D", "o", "e">>,
     <<"(", "2", "0", "2", "4", ")", " ", "R", "e", "v", "i", "e", "w", " ", EmDash, " ", "A", " ", "B">>,
     <<"R", "o", "b", " ", "-", " ", "1", "0", "0", "0", " ", "-", " ", "L", "a", "f", "f", "r", "a", " ", "-", " ", "T">>}

\* the text between the speaker and the extension
PrefixTags ==
    {<<" ", "(", "2", "0", "2", "5", ")">>,
     <<" ", "(", "P", "y", "B", "a", "y", " ", "2", "0", "2", "5", ")">>,
     <<>>,
     <<" ", "(", "2", "0", "2", "5", "5", ")">>,
     <<" ", "(", "2", "0", "2", ")">>,
     <<"(", "2", "0", "2", "4", ")">>,
     <<" ", "(", "p", "y", "b", "a", "y", " ", "2", "0", "2", "5", ")">>,
     <<" ", "2", "0", "2", "5">>,
     <<" ", "[", "2", "0", "2", "5", "]">>,
     <<" ", "(", "2", "0", "2", "5", ")", " ">>,
     <<" ", "(", "P", "y", "B", "a", "y", " ", "2", "0", "2", "5", ")", " ", "(", "2", "0", "2", "4", ")">>,
     <<" ", "(", "2", "0", "2", "4", ")", " ", "(", "P", "y", "B", "a", "y", " ", "2", "0", "2", "5", ")">>}

\* the end of the name
PrefixExtensions ==
    {<<".", "m", "p", "4">>,
     <<".", "M", "O", "V">>,
     <<>>,
     <<".", "t", "a", "r", ".", "g", "z">>,
     <<".">>,
     <<".", "m", "-", "4">>,
     <<".", "m", "p", "4", "\n">>,
     <<".", "w", "e", "b", "m", "_", "1">>}

PrefixFileNames ==
    {title \o tag \o ext :
        title \in PrefixTitles, tag \in PrefixTags, ext \in PrefixExtensions}

InitPrefix ==
    /\ pc = "call"
    /\ video_file \in PrefixFileNames
    /\ result = None
    /\ new_filename = None
    /\ talk = Idle /\ video_files = Idle /\ year = Idle /\ extension = Idle
    /\ directory = Idle /\ talks = Idle /\ idx = Idle /\ rename_map = Idle
    /\ matched_files = Idle /\ skipped_talks = Idle /\ unmatched_files = Idle
    /\ talk_time = Idle /\ file_tokens = Idle
    /\ talk_metadata = Idle /\ needs_manual_review = Idle
    /\ OpVarsIdle

\* fix_missing_pybay_prefix(filename)
FixMissingPybayPrefix ==
    /\ pc = "call"
    /\ result' = fix_missing_pybay_prefix(video_file)
    /\ pc' = "returned"
    /\ UNCHANGED <<talk, video_files, year, extension, new_filename, directory,
                   talks, idx, rename_map, matched_files, skipped_talks,
                   unmatched_files>>
    /\ UNCHANGED callVars

\* fix_missing_pybay_prefix applied to the name it returned
FixAgain ==
    /\ pc = "returned"
    /\ result /= None
    /\ new_filename' = fix_missing_pybay_prefix(result)
    /\ pc' = "again"
    /\ UNCHANGED <<talk, video_files, result, year, extension, directory,
                   talks, idx, rename_map, matched_files, skipped_talks,
                   unmatched_files>>
    /\ UNCHANGED callVars

NextPrefix == FixMissingPybayPrefix \/ FixAgain

SpecPrefix == InitPrefix /\ [][NextPrefix]_vars

----------------------------------------------------------------------------
(* The downloader: verify_file, download_file_fast,                        *)
(* process_single_file_parallel and the pre-scan, the worker pool and the  *)
(* as_completed loop of main (specifications SpecFast and SpecDownload)    *)
(*                                                                         *)
(* A stored file is the pair of its size in bytes and the MD5 digest of    *)
(* its bytes.  File names are opaque here.  Failures of the file system    *)
(* itself (an unlink or an open that raises on an existing, writable       *)
(* directory) are outside the model; failures of the network are in it.    *)

\* file_info.get('md5Checksum') of a listing entry that has no such key
NoChecksum == "<no md5Checksum>"

\* last_error, download_error, error_msg while they are None
NoError == "<no error>"

\* local[name] of a name that is not in the download directory
Absent == [size |-> -1, digest |-> "<absent>"]

\* a file of no bytes, as open(destination, 'wb') leaves it
Empty == [size |-> 0, digest |-> "md5-empty"]

\* file_ops.py verify_file, on a path that exists
verify_file(stored, expected_size, expected_md5) ==
    IF stored.size /= expected_size THEN FALSE
    ELSE IF expected_md5 /= NoChecksum /\ stored.digest /= expected_md5
         THEN FALSE
    ELSE TRUE

\* file_ops_parallel.py line 17: the default of chunk_size
chunk_size == 4 * 1024 * 1024

\* file_ops_parallel.py line 16: the default of max_retries, which
\* process_single_file_parallel does not override
DefaultMaxRetries == 5

\* the largest max_retries a direct call of download_file_fast is given
MaxRetries == 3

\* the largest number of entries of the Drive listing
MaxListed == 2

\* the entries list_video_files can return: Drive lets two files of one
\* folder carry the same name, and reports md5Checksum for some files only
DriveFiles ==
    { [id |-> "id1", name |-> "talk.mp4", size |-> 10485760,
       md5Checksum |-> "md5-1"],
      [id |-> "id2", name |-> "talk.mp4", size |-> 1000,
       md5Checksum |-> NoChecksum],
      [id |-> "id3", name |-> "intro.mp4", size |-> 10485760,
       md5Checksum |-> NoChecksum] }

\* the MD5 digest of the bytes Drive serves for a file id
DriveBytes(id) ==
    CASE id = "id1" -> "md5-1"
      [] id = "id2" -> "md5-2"
      [] OTHER -> "md5-3"

DownloadNames == {f.name : f \in DriveFiles}

\* the listings: lists of distinct Drive files
Listings(n) ==
    {s \in UNION {[1..k -> DriveFiles] : k \in 0..n} :
        \A i, j \in DOMAIN s : i /= j => s[i] /= s[j]}

\* the complete copy of a Drive file
CopyOf(f) == [size |-> f.size, digest |-> DriveBytes(f.id)]

\* what a download directory can hold under a name before a run: nothing, a
\* complete copy of a Drive file of that name, a 0-byte file, or other bytes
\* of the size of such a file
StoredFiles(name) ==
    {Absent, Empty}
    \cup {CopyOf(f) : f \in {g \in DriveFiles : g.name = name}}
    \cup {[size |-> f.size, digest |-> "md5-other"] :
            f \in {g \in DriveFiles : g.name = name /\ g.size > 1000}}

\* the download directories of a run over a listing
Locals(listing) ==
    {l \in [DownloadNames -> UNION {StoredFiles(n) : n \in DownloadNames}] :
        \A n \in DownloadNames :
            /\ l[n] \in StoredFiles(n)
            /\ (\A i \in DOMAIN listing : listing[i].name /= n) => l[n] = Absent}

Exists(name) == local[name] /= Absent

NoStats == [downloaded |-> 0, skipped |-> 0, failed |-> 0]

\* the state of one call of process_single_file_parallel (and of the call of
\* download_file_fast in it): file is the index of its file_info in all_files;
\* attempt is the loop variable of download_file_fast, -1 before the loop;
\* outcome is how the latest attempt ended; slept tells whether time.sleep ran
\* after it; download_error is the message download_file_fast returned;
\* linked tells whether the file this call has open for writing is
\* still the one under the destination path, shared whether another call
\* wrote to that file meanwhile; counted tells whether main has taken the result
NewWorker(i, at) ==
    [file |-> i, pc |-> at, attempt |-> -1, outcome |-> "none",
     last_error |-> NoError, slept |-> FALSE, linked |-> FALSE,
     shared |-> FALSE, download_error |-> NoError, stats |-> NoStats,
     error_msg |-> NoError, counted |-> FALSE]

InfoOf(w) == all_files[workers[w].file]

\* the variables the downloader leaves alone
notDownloadVars ==
    <<talk, video_files, result, year, extension, new_filename, directory,
      talks, idx, rename_map, matched_files, skipped_talks, unmatched_files,
      talk_time, video_file, file_tokens, talk_metadata, needs_manual_review,
      renameVars, normalized_yt_title>>

NotDownloadVarsIdle ==
    /\ talk = Idle /\ video_files = Idle /\ result = Idle /\ year = Idle
    /\ extension = Idle /\ new_filename = Idle
    /\ directory = Idle /\ talks = Idle /\ idx = Idle /\ rename_map = Idle
    /\ matched_files = Idle /\ skipped_talks = Idle /\ unmatched_files = Idle
    /\ talk_time = Idle /\ video_file = Idle /\ file_tokens = Idle
    /\ talk_metadata = Idle /\ needs_manual_review = Idle
    /\ RenameVarsIdle
    /\ normalized_yt_title = Idle

\* destination.unlink(): the name leaves the directory, and a call that has
\* the file open keeps writing to a file no path leads to
Unlinked(ws, name) ==
    [v \in DOMAIN ws |->
        IF all_files[ws[v].file].name = name
        THEN [ws[v] EXCEPT !.linked = FALSE]
        ELSE ws[v]]

\* the calls other than w that have the file under w's destination open
Writers(w) ==
    {v \in DOMAIN workers :
        /\ v /= w
        /\ InfoOf(v).name = InfoOf(w).name
        /\ workers[v].pc = "stream"
        /\ workers[v].linked}

\* a write of w reaches the file the other writers have open
Disturbed(ws, w) ==
    [v \in DOMAIN ws |->
        IF v \in Writers(w) THEN [ws[v] EXCEPT !.shared = TRUE] ELSE ws[v]]

(* download_file_fast *)

\* how the request of one attempt can end: with the response to stream
\* ("ok"), or with the exception of lines 93-137
RequestOutcomes ==
    {"ok", "rate_limit", "forbidden", "not_found", "server_error",
     "http_error", "network_error", "error"}

\* lines 105-110: the failures after which the loop is left by break
Breaks_Only403(outcome) == outcome = "forbidden"

Breaks(outcome) == outcome \in {"forbidden", "not_found"}

\* lines 94-137: last_error after an attempt that ended with outcome
ErrorOf(outcome) ==
    CASE outcome = "rate_limit" -> "Rate limit exceeded"
      [] outcome = "forbidden" -> "HTTP 403: Forbidden"
      [] outcome = "not_found" -> "File not found (404)"
      [] outcome = "server_error" -> "HTTP 503: Service Unavailable"
      [] outcome = "http_error" -> "HTTP 400: Bad Request"
      [] outcome = "network_error" -> "Network error: ConnectionError"
      [] OTHER -> "Error: ValueError"

\* lines 100, 114, 119, 126, 134: time.sleep runs unless the attempt was
\* the last one
Sleeps(attempt, retries) == attempt < retries - 1

\* the call in state me after its attempt ended with an exception that the
\* loop handles
Failed(me, outcome) ==
    [me EXCEPT
        !.outcome = outcome,
        !.last_error = ErrorOf(outcome),
        !.slept = IF Breaks(outcome) THEN FALSE
                  ELSE Sleeps(me.attempt, max_retries),
        !.linked = FALSE,
        !.shared = FALSE,
        !.download_error = IF Breaks(outcome) THEN ErrorOf(outcome) ELSE @,
        !.pc = IF Breaks(outcome) THEN "fast_false" ELSE "cleanup"]

\* the calls run while main waits for them, or download_file_fast is called
\* on its own
Running == pc \in {"collect", "download_file_fast"}

\* lines 45-81 and 93-137: the next attempt starts; the request fails, or it
\* succeeds and open(destination, 'wb') creates the file or empties it
Request(w) ==
    /\ Running
    /\ workers[w].pc = "request"
    /\ workers[w].attempt + 1 < max_retries
    /\ \E outcome \in RequestOutcomes :
        LET name == InfoOf(w).name
            started == [workers EXCEPT ![w].attempt = @ + 1]
        IN  IF outcome = "ok"
            THEN /\ local' = [local EXCEPT ![name] = Empty]
                 /\ workers' =
                        [Disturbed(started, w) EXCEPT
                            ![w].pc = "stream",
                            ![w].outcome = "none",
                            ![w].linked = TRUE,
                            ![w].shared = Writers(w) /= {}]
            ELSE /\ local' = local
                 /\ workers' =
                        [started EXCEPT ![w] = Failed(started[w], outcome)]
    /\ UNCHANGED <<pc, all_files, existing_count, files_to_download,
                   total_stats, max_retries>>
    /\ UNCHANGED notDownloadVars

\* line 88: abs(downloaded_bytes - file_size)
Distance(a, b) == IF a >= b THEN a - b ELSE b - a

\* the numbers of bytes a stream can have written when it ends
Written(size) == {n \in {0, size - 1000, size} : n >= 0}

\* the file that holds the first n bytes of a Drive file
Prefix(f, n) ==
    IF n = f.size THEN CopyOf(f)
    ELSE IF n = 0 THEN Empty
    ELSE [size |-> n, digest |-> "md5-other"]

\* lines 82-91 and 123-137: the chunks are written; the stream ends by itself
\* after n bytes (complete, or short without an exception) or breaks with an
\* exception; line 88 compares the count with file_size
Stream(w) ==
    /\ Running
    /\ workers[w].pc = "stream"
    /\ \E n \in Written(InfoOf(w).size), broken \in BOOLEAN,
          mixed \in BOOLEAN :
        LET f == InfoOf(w)
            me == workers[w]
            closed == [workers EXCEPT ![w].linked = FALSE,
                                      ![w].shared = FALSE]
            mismatch == f.size > 0 /\ Distance(n, f.size) > chunk_size
            others == IF me.linked THEN Disturbed(closed, w) ELSE closed
        IN  /\ broken => n < f.size
            /\ mixed => me.shared /\ me.linked
            /\ local' =
                   IF me.linked
                   THEN [local EXCEPT ![f.name] =
                            IF mixed
                            THEN [size |-> n, digest |-> "md5-other"]
                            ELSE Prefix(f, n)]
                   ELSE local
            /\ workers' =
                   IF broken
                   THEN [others EXCEPT ![w] = Failed(me, "network_error")]
                   ELSE IF mismatch
                   THEN [others EXCEPT ![w] = Failed(me, "error")]
                   ELSE [others EXCEPT
                            ![w].pc = "fast_true",
                            ![w].outcome = "ok"]
    /\ UNCHANGED <<pc, all_files, existing_count, files_to_download,
                   total_stats, max_retries>>
    /\ UNCHANGED notDownloadVars

\* lines 139-144: after a failed attempt that did not break, the partial
\* file is removed if the destination exists
Cleanup(w) ==
    /\ Running
    /\ workers[w].pc = "cleanup"
    /\ LET name == InfoOf(w).name
       IN  /\ local' = [local EXCEPT ![name] = Absent]
           /\ workers' = [Unlinked(workers, name) EXCEPT ![w].pc = "request"]
    /\ UNCHANGED <<pc, all_files, existing_count, files_to_download,
                   total_stats, max_retries>>
    /\ UNCHANGED notDownloadVars

\* lines 43 and 146-152: range(max_retries) is used up
Exhausted(w) ==
    /\ Running
    /\ workers[w].pc = "request"
    /\ workers[w].attempt + 1 >= max_retries
    /\ workers' = [workers EXCEPT ![w].pc = "fast_false",
                                  ![w].download_error = workers[w].last_error]
    /\ UNCHANGED <<pc, all_files, local, existing_count, files_to_download,
                   total_stats, max_retries>>
    /\ UNCHANGED notDownloadVars

\* download_file_fast is called once, on any Drive file, with any max_retries
\* and any file or none at the destination
InitFast ==
    /\ pc = "download_file_fast"
    /\ all_files \in {s \in Listings(1) : s /= <<>>}
    /\ local \in Locals(all_files)
    /\ max_retries \in 0..MaxRetries
    /\ workers = <<NewWorker(1, "request")>>
    /\ existing_count = 0
    /\ files_to_download = <<1>>
    /\ total_stats = NoStats
    /\ NotDownloadVarsIdle

NextFast == Request(1) \/ Stream(1) \/ Cleanup(1) \/ Exhausted(1)

SpecFast == InitFast /\ [][NextFast]_vars

(* process_single_file_parallel *)

\* the call returns stats with one counter set; the locals of
\* download_file_fast are gone
Returned(me, key, message) ==
    [NewWorker(me.file, "returned") EXCEPT
        !.stats = [NoStats EXCEPT ![key] = 1],
        !.error_msg = message]

\* lines 126-133: a destination that exists and verifies is skipped, one
\* that exists and does not verify is deleted
CheckExisting(w) ==
    /\ pc = "collect"
    /\ workers[w].pc = "start"
    /\ LET f == InfoOf(w)
       IN  IF ~Exists(f.name)
           THEN /\ workers' = [workers EXCEPT ![w].pc = "auth"]
                /\ local' = local
           ELSE IF verify_file(local[f.name], f.size, f.md5Checksum)
           THEN /\ workers' =
                       [workers EXCEPT
                           ![w] = Returned(@, "skipped", NoError)]
                /\ local' = local
           ELSE /\ workers' =
                       [Unlinked(workers, f.name) EXCEPT ![w].pc = "auth"]
                /\ local' = [local EXCEPT ![f.name] = Absent]
    /\ UNCHANGED <<pc, all_files, existing_count, files_to_download,
                   total_stats, max_retries>>
    /\ UNCHANGED notDownloadVars

\* lines 135-145: get_drive_service raises, or download_file_fast is called
Authenticate(w) ==
    /\ pc = "collect"
    /\ workers[w].pc = "auth"
    /\ \E raises \in BOOLEAN :
        workers' =
            IF raises
            THEN [workers EXCEPT
                    ![w] = Returned(@, "failed", "Authentication failed")]
            ELSE [workers EXCEPT ![w].pc = "request"]
    /\ UNCHANGED <<pc, all_files, local, existing_count, files_to_download,
                   total_stats, max_retries>>
    /\ UNCHANGED notDownloadVars

\* lines 147-157: the download succeeded; the file is verified and deleted if
\* it fails; verify_file raises if the destination is gone
VerifyDownloaded(w) ==
    /\ pc = "collect"
    /\ workers[w].pc = "fast_true"
    /\ LET f == InfoOf(w)
       IN  IF ~Exists(f.name)
           THEN /\ workers' =
                       [workers EXCEPT ![w] = NewWorker(@.file, "raised")]
                /\ local' = local
           ELSE IF verify_file(local[f.name], f.size, f.md5Checksum)
           THEN /\ workers' =
                       [workers EXCEPT
                           ![w] = Returned(@, "downloaded", NoError)]
                /\ local' = local
           ELSE /\ workers' =
                       [Unlinked(workers, f.name) EXCEPT
                           ![w] = Returned(@, "failed",
                                     "Verification failed after download")]
                /\ local' = [local EXCEPT ![f.name] = Absent]
    /\ UNCHANGED <<pc, all_files, existing_count, files_to_download,
                   total_stats, max_retries>>
    /\ UNCHANGED notDownloadVars

\* lines 158-163: the download failed
DownloadFailed(w) ==
    /\ pc = "collect"
    /\ workers[w].pc = "fast_false"
    /\ workers' =
           [workers EXCEPT
               ![w] = Returned(@, "failed",
                        IF workers[w].download_error = NoError
                        THEN "Unknown error"
                        ELSE workers[w].download_error)]
    /\ UNCHANGED <<pc, all_files, local, existing_count, files_to_download,
                   total_stats, max_retries>>
    /\ UNCHANGED notDownloadVars

(* main of google_drive_video_downloader.py *)

\* lines 282-300: the test of the pre-scan on entry i of the listing
AlreadyDownloaded(i) ==
    LET f == all_files[i]
    IN  /\ Exists(f.name)
        /\ verify_file(local[f.name], f.size, f.md5Checksum)

\* the entries of 1..n that the pre-scan keeps for download, in order
ToDownload(n) ==
    SelectSeq([i \in 1..n |-> i], LAMBDA i : ~AlreadyDownloaded(i))

\* lines 264-314: the listing is taken and pre-scanned; main returns if it is
\* empty or if nothing is left to download
PreScan ==
    /\ pc = "prescan"
    /\ existing_count' =
           Cardinality({i \in DOMAIN all_files : AlreadyDownloaded(i)})
    /\ files_to_download' = ToDownload(Len(all_files))
    /\ pc' = IF files_to_download' = <<>> THEN "returned" ELSE "preflight"
    /\ UNCHANGED <<all_files, local, total_stats, workers, max_retries>>
    /\ UNCHANGED notDownloadVars

\* lines 316-352: too little disk space, the user's "n", or a download path
\* that cannot be written
Exit ==
    /\ pc = "preflight"
    /\ pc' = "exited"
    /\ UNCHANGED downloadVars
    /\ UNCHANGED notDownloadVars

TotalStatsAtStart_Zero(existing) == NoStats

\* line 359: the files the pre-scan found complete are the first skipped ones
TotalStatsAtStart(existing) == [NoStats EXCEPT !.skipped = existing]

\* lines 358-373: total_stats is set up and one call is submitted per file
Submit ==
    /\ pc = "preflight"
    /\ total_stats' = TotalStatsAtStart(existing_count)
    /\ workers' = [k \in DOMAIN files_to_download |->
                      NewWorker(files_to_download[k], "start")]
    /\ pc' = "collect"
    /\ UNCHANGED <<all_files, local, existing_count, files_to_download,
                   max_retries>>
    /\ UNCHANGED notDownloadVars

Finished(w) == workers[w].pc \in {"returned", "raised"}

\* lines 379-403: as_completed yields a finished call; its stats are added,
\* or one failure is counted if future.result() raises
Collect(w) ==
    /\ pc = "collect"
    /\ Finished(w)
    /\ ~workers[w].counted
    /\ total_stats' =
           IF workers[w].pc = "raised"
           THEN [total_stats EXCEPT !.failed = @ + 1]
           ELSE [key \in DOMAIN total_stats |->
                    total_stats[key] + workers[w].stats[key]]
    /\ workers' = [workers EXCEPT ![w].counted = TRUE]
    /\ UNCHANGED <<pc, all_files, local, existing_count, files_to_download,
                   max_retries>>
    /\ UNCHANGED notDownloadVars

\* lines 405-409: the loop is over and the summary is printed
PrintSummary ==
    /\ pc = "collect"
    /\ \A w \in DOMAIN workers : workers[w].counted
    /\ pc' = "summary"
    /\ UNCHANGED downloadVars
    /\ UNCHANGED notDownloadVars

InitDownload ==
    /\ pc = "prescan"
    /\ all_files \in Listings(MaxListed)
    /\ local \in Locals(all_files)
    /\ max_retries = DefaultMaxRetries
    /\ workers = <<>>
    /\ existing_count = 0
    /\ files_to_download = <<>>
    /\ total_stats = NoStats
    /\ NotDownloadVarsIdle

NextDownload ==
    \/ PreScan
    \/ Exit
    \/ Submit
    \/ \E w \in DOMAIN workers : CheckExisting(w)
    \/ \E w \in DOMAIN workers : Authenticate(w)
    \/ \E w \in DOMAIN workers : Request(w)
    \/ \E w \in DOMAIN workers : Stream(w)
    \/ \E w \in DOMAIN workers : Cleanup(w)
    \/ \E w \in DOMAIN workers : Exhausted(w)
    \/ \E w \in DOMAIN workers : VerifyDownloaded(w)
    \/ \E w \in DOMAIN workers : DownloadFailed(w)
    \/ \E w \in DOMAIN workers : Collect(w)
    \/ PrintSummary

SpecDownload == InitDownload /\ [][NextDownload]_vars

----------------------------------------------------------------------------
(* Properties of find_video_for_talk (specification SpecMatch)             *)

\* the speakers of a talk as the metadata gives them, in either format
SpeakersOf(t) ==
    IF t.has_speakers THEN t.speakers ELSE <<Speaker(t.firstname, t.lastname)>>

\* a lastname that names someone: not empty and not the sentinel "."
IsRealLastname(n) == n /= <<>> /\ n /= S_Dot

\* the talk carries usable speaker-name data
HasNameData(t) ==
    \E i \in 1..Len(SpeakersOf(t)) :
        SpeakersOf(t)[i].firstname /= <<>> \/ IsRealLastname(SpeakersOf(t)[i].lastname)

\* one string contains the other, case-insensitively
EitherContains(a, b) ==
    Contains(Lower(a), Lower(b)) \/ Contains(Lower(b), Lower(a))

\* some speaker's lastname, or firstname, agrees with the surname fragment
SomeSpeakerAgrees(t, fragment) ==
    \E i \in 1..Len(SpeakersOf(t)) :
        \/ /\ IsRealLastname(SpeakersOf(t)[i].lastname)
           /\ EitherContains(SpeakersOf(t)[i].lastname, fragment)
        \/ /\ SpeakersOf(t)[i].firstname /= <<>>
           /\ EitherContains(SpeakersOf(t)[i].firstname, fragment)

\* the candidate reaches the name verification: it is not skipped as already
\* processed and passes the room and the time filters
ReachesNameCheck(t, name) ==
    /\ ~AlreadyProcessed(name)
    /\ RoomMatches(Tokens(name), Lower(t.room))
    /\ TimeMatches(Tokens(name), normalize_time_to_24h(t.start_time))

\* the candidate at position i was accepted: the search returned it, or an
\* equal or earlier candidate, and did not go past it
AcceptedAt(i) ==
    result /= None /\ \E j \in 1..i : video_files[j] = result

\* the talk with its speakers in the opposite order
WithSpeakersReversed(t) ==
    [t EXCEPT !.speakers = [i \in 1..Len(@) |-> @[Len(@) + 1 - i]]]

\* C1: find_video_for_talk never returns a name that contains ' -- ' (the
\* em-dash separator) or that begins with '![REVIEW_NEEDED]_'.
C1_NeverReturnsProcessed ==
    (pc = "returned" /\ result /= None) =>
        /\ ~Contains(result, EmDashSeparator)
        /\ ~StartsWith(result, S_ReviewPrefix)

\* C2: a returned candidate has no room token that differs, case-insensitively,
\* from the talk's room, and no time token whose 24-hour key differs from the
\* talk's key.
C2_RoomAndTimeAgree ==
    (pc = "returned" /\ result /= None) =>
        LET tk == Tokens(result)
        IN  /\ Truthy(tk.room) => Lower(tk.room) = Lower(talk.room)
            /\ Truthy(tk.time) =>
                   normalize_time_to_24h(tk.time) = normalize_time_to_24h(talk.start_time)

\* C2 happens: nothing is returned although one candidate differs from the
\* talk in the room only and another in the time only, and the surname of
\* both is a speaker's.
C2_Witness ==
    /\ pc = "returned" /\ result = None /\ Len(video_files) = 2
    /\ LET a == Tokens(video_files[1])
           b == Tokens(video_files[2])
       IN  /\ Truthy(a.room) /\ Lower(a.room) /= Lower(talk.room)
           /\ Truthy(a.time)
           /\ normalize_time_to_24h(a.time) = normalize_time_to_24h(talk.start_time)
           /\ Truthy(a.lastname) /\ SomeSpeakerAgrees(talk, a.lastname)
           /\ Truthy(b.room) /\ Lower(b.room) = Lower(talk.room)
           /\ Truthy(b.time)
           /\ normalize_time_to_24h(b.time) /= normalize_time_to_24h(talk.start_time)
           /\ Truthy(b.lastname) /\ SomeSpeakerAgrees(talk, b.lastname)

\* C3: a candidate that reaches the name verification with a surname fragment,
\* for a talk with speaker-name data, is accepted exactly when some speaker's
\* lastname, or else firstname, contains or is contained in the fragment; the
\* result is the same with the speakers in the opposite order.
C3_NameVerification ==
    pc = "returned" =>
        /\ \A i \in 1..Len(video_files) :
               LET f == video_files[i]
               IN  (/\ ReachesNameCheck(talk, f)
                    /\ Truthy(Tokens(f).lastname)
                    /\ HasNameData(talk))
                   => IF SomeSpeakerAgrees(talk, Tokens(f).lastname)
                      THEN AcceptedAt(i)
                      ELSE result /= f
        /\ result = find_video_for_talk(WithSpeakersReversed(talk), video_files)

\* C3 happens: the first candidate is refused on its surname and the second
\* is accepted on the surname of the talk's second speaker alone.
C3_Witness ==
    /\ pc = "returned" /\ Len(video_files) = 2 /\ Len(SpeakersOf(talk)) = 2
    /\ ReachesNameCheck(talk, video_files[1])
    /\ Truthy(Tokens(video_files[1]).lastname)
    /\ ~SomeSpeakerAgrees(talk, Tokens(video_files[1]).lastname)
    /\ result = video_files[2]
    /\ Truthy(Tokens(result).lastname)
    /\ EitherContains(SpeakersOf(talk)[2].lastname, Tokens(result).lastname)
    /\ ~EitherContains(SpeakersOf(talk)[1].lastname, Tokens(result).lastname)
    /\ ~EitherContains(SpeakersOf(talk)[1].firstname, Tokens(result).lastname)

\* C4: a candidate that reaches the name verification is accepted whenever it
\* has no surname fragment, or the talk has no usable speaker-name data (no
\* speakers, or only speakers with an empty firstname and a lastname that is
\* empty or ".").
C4_AcceptedWithoutNames ==
    pc = "returned" =>
        \A i \in 1..Len(video_files) :
            (/\ ReachesNameCheck(talk, video_files[i])
             /\ (~Truthy(Tokens(video_files[i]).lastname) \/ ~HasNameData(talk)))
            => AcceptedAt(i)

\* C5: a returned candidate has a time token, and a talk whose start_time has
\* no digit gets no candidate.
C5_TimeIsMandatory ==
    pc = "returned" =>
        /\ result /= None => Truthy(Tokens(result).time)
        /\ (\A i \in 1..Len(talk.start_time) : ~IsDigit(talk.start_time[i]))
               => result = None

\* C5 happens: the talk's start_time has no digit; one candidate is in the
\* talk's room and has a time token, another has no time token; none is
\* returned.
C5_Witness ==
    /\ pc = "returned" /\ result = None
    /\ \A i \in 1..Len(talk.start_time) : ~IsDigit(talk.start_time[i])
    /\ \E i \in 1..Len(video_files) :
           /\ ~AlreadyProcessed(video_files[i])
           /\ Truthy(Tokens(video_files[i]).time)
           /\ Truthy(Tokens(video_files[i]).room)
           /\ Lower(Tokens(video_files[i]).room) = Lower(talk.room)
    /\ \E i \in 1..Len(video_files) :
           /\ ~AlreadyProcessed(video_files[i])
           /\ ~Truthy(Tokens(video_files[i]).time)

\* the positions of the candidates that pass every filter
Passing == {i \in 1..Len(video_files) : CandidatePasses(talk, Tokens(video_files[i]))}

\* C6: the result is the first candidate, in list order, that passes every
\* filter: a returned candidate passes and none before it does; if some
\* candidate passes the result is not None; if none passes it is None.
C6_FirstMatchWins ==
    pc = "returned" =>
        /\ result /= None =>
               \E i \in Passing :
                   /\ video_files[i] = result
                   /\ \A j \in 1..(i - 1) : j \notin Passing
        /\ Passing /= {} => result /= None
        /\ Passing = {} => result = None

\* C6 happens: two different candidates pass and the first is returned.
C6_Witness ==
    /\ pc = "returned" /\ Passing = {1, 2}
    /\ video_files[1] /= video_files[2]
    /\ result = video_files[1]

----------------------------------------------------------------------------
(* Properties of create_rename_mapping_from_json (specification Spec)      *)

InList(l, x) == \E i \in 1..Len(l) : l[i] = x

\* C7: when create_rename_mapping_from_json returns, every candidate video
\* file of the directory is matched or is in unmatched_files, and every file
\* in unmatched_files is mapped to '![REVIEW_NEEDED]_' followed by its name.
C7_NoCandidateDropped ==
    pc = "returned" =>
        /\ \A f \in directory :
               (GlobIndex(f) > 0 /\ IsCandidate(f))
               => (f \in matched_files \/ InList(unmatched_files, f))
        /\ \A i \in 1..Len(unmatched_files) :
               /\ DictHas(rename_map, unmatched_files[i])
               /\ DictGet(rename_map, unmatched_files[i])
                      = S_ReviewPrefix \o unmatched_files[i]

\* C7 happens: the pass returns with a matched file and an unmatched file.
C7_Witness ==
    /\ pc = "returned"
    /\ matched_files /= {}
    /\ unmatched_files /= <<>>

----------------------------------------------------------------------------
(* Properties of generate_new_filename (specification SpecGen)             *)

\* the year as it is printed
YearText ==
    IF year = 2024 THEN <<"2", "0", "2", "4">>
    ELSE IF year = 2025 THEN <<"2", "0", "2", "5">>
    ELSE <<"2", "0", "2", "6">>

\* the display name of a speaker: firstname and lastname, those that are not
\* empty, joined by one space, a lastname "." left out
DisplayName(sp) ==
    IF sp.firstname /= <<>> /\ IsRealLastname(sp.lastname)
    THEN sp.firstname \o <<" ">> \o sp.lastname
    ELSE IF sp.firstname /= <<>> THEN sp.firstname
    ELSE IF IsRealLastname(sp.lastname) THEN sp.lastname
    ELSE <<>>

RECURSIVE JoinedDisplayNames(_)
\* the display names in list order, joined by ' & '
JoinedDisplayNames(speakers) ==
    IF Len(speakers) = 1 THEN DisplayName(speakers[1])
    ELSE JoinedDisplayNames(SubSeq(speakers, 1, Len(speakers) - 1))
         \o <<" ", "&", " ">> \o DisplayName(speakers[Len(speakers)])

\* '{talk_title} -- {names} (PyBay {year}).{extension}'
PublishedName(t) ==
    t.talk_title \o <<" ", EmDash, " ">> \o JoinedDisplayNames(t.speakers)
    \o <<" ", "(", "P", "y", "B", "a", "y", " ">> \o YearText \o <<")", ".">>
    \o extension

\* the talk has a speakers list and each of its speakers has a display name
EverySpeakerNamed(t) ==
    /\ t.has_speakers /\ t.speakers /= <<>>
    /\ \A i \in 1..Len(t.speakers) : DisplayName(t.speakers[i]) /= <<>>

C9_GeneratedIsPublished ==
    /\ pc \in {"generated", "searched"} => Contains(new_filename, EmDashSeparator)
    /\ pc = "searched" => result = None

\* C9 happens: the generated name was offered to a talk whose room, time and
\* speaker agree with the tokens of that name, and was not returned.
C9_Witness ==
    /\ pc = "searched" /\ result = None
    /\ video_files = <<new_filename>>
    /\ LET tk == Tokens(new_filename)
       IN  /\ Truthy(tk.room) /\ Lower(tk.room) = Lower(talk.room)
           /\ Truthy(tk.time)
           /\ normalize_time_to_24h(tk.time) = normalize_time_to_24h(talk.start_time)
           /\ Truthy(tk.lastname) /\ SomeSpeakerAgrees(talk, tk.lastname)

\* the characters no generated name may contain
ForbiddenChars == {"<", ">", ":", "\"", "/", "\\", "|", "?", "*"}

RECURSIVE KeepsTheRest(_, _)
\* name is raw without its forbidden characters, the others in their order
KeepsTheRest(raw, name) ==
    IF raw = <<>> THEN name = <<>>
    ELSE IF Head(raw) \in ForbiddenChars THEN KeepsTheRest(Tail(raw), name)
    ELSE /\ name /= <<>>
         /\ Head(name) = Head(raw)
         /\ KeepsTheRest(Tail(raw), Tail(name))

\* C10: the generated name contains none of < > : " / \ | ? * and keeps
\* every other character of the unsanitized name, '&' included, in order.
C10_Sanitized ==
    pc = "generated" =>
        /\ \A i \in 1..Len(new_filename) : new_filename[i] \notin ForbiddenChars
        /\ KeepsTheRest(UnsanitizedFilename(talk, year, extension), new_filename)

\* C10 happens: the title holds each of the nine characters and an '&'; the
\* generated name is nine characters shorter and still holds the '&' of the
\* title and the ' & ' between two speakers.
C10_Witness ==
    /\ pc = "generated"
    /\ \A c \in ForbiddenChars : InList(talk.talk_title, c)
    /\ InList(talk.talk_title, "&")
    /\ Len(new_filename) = Len(UnsanitizedFilename(talk, year, extension)) - 9
    /\ Contains(new_filename, <<"R", "&", "D">>)
    /\ Contains(new_filename, <<" ", "&", " ">>)

\* the speaker has a display name
HasDisplayName(sp) == DisplayName(sp) /= <<>>

\* the speakers of the talk that have a display name, in list order
NamedSpeakers(t) == SelectSeq(SpeakersOf(t), HasDisplayName)

\* the text between the ' -- ' after the title and ' (PyBay' in the name
\* before sanitization
SpeakerSegment(t) ==
    LET raw   == UnsanitizedFilename(t, year, extension)
        start == Len(t.talk_title) + 3
        tail  == Len(S_PyBayOpen) + 4 + Len(S_CloseDot) + Len(extension)
    IN  SubSeq(raw, start + 1, Len(raw) - tail)

\* C11: the speaker segment of a generated name is never empty: it is
\* 'Unknown Speaker' when no speaker of the talk has a name part, and
\* otherwise the display names of the speakers that have one joined by
\* ' & ', so a speaker without a name part leaves no empty entry.
C11_SpeakerSegment ==
    pc = "generated" =>
        /\ new_filename = Sanitize(UnsanitizedFilename(talk, year, extension))
        /\ SpeakerSegment(talk) /= <<>>
        /\ SpeakerSegment(talk) =
              (IF NamedSpeakers(talk) = <<>> THEN S_UnknownSpeaker
               ELSE JoinedDisplayNames(NamedSpeakers(talk)))
        /\ ~StartsWith(SpeakerSegment(talk), S_Amp)
        /\ ~EndsWith(SpeakerSegment(talk), S_Amp)
        /\ ~Contains(SpeakerSegment(talk), S_Amp \o S_Amp)

\* C11 happens: a name was generated for a talk whose second of three
\* speakers has no name part.
C11_Witness ==
    /\ pc = "generated" /\ talk.has_speakers
    /\ Len(talk.speakers) = 3
    /\ ~HasDisplayName(talk.speakers[2])
    /\ Len(NamedSpeakers(talk)) = 2

\* C11 happens for the empty cases too: a name with 'Unknown Speaker' was
\* generated for a talk whose two speakers both lack a name part.
C11_WitnessUnknown ==
    /\ pc = "generated" /\ talk.has_speakers
    /\ Len(talk.speakers) = 2 /\ NamedSpeakers(talk) = <<>>
    /\ Contains(new_filename, S_UnknownSpeaker)

\* index of the first ':' of s, 0 when it has none
ColonIndex(s) ==
    IF \E i \in 1..Len(s) : s[i] = ":"
    THEN CHOOSE i \in 1..Len(s) : s[i] = ":" /\ \A j \in 1..(i - 1) : s[j] /= ":"
    ELSE 0

AllDigits(s) == \A i \in 1..Len(s) : IsDigit(s[i])

\* the am/pm markers of a 12-hour time, with and without the space
Markers == {S_am, S_pm, <<" ">> \o S_am, <<" ">> \o S_pm}

\* s is 'H:MM am' or 'H:MM pm', H in 1..12, MM in 00..59, the space optional
IsTwelveHourSpelling(s) ==
    LET c == ColonIndex(s)
    IN  /\ c \in {2, 3}
        /\ Len(s) >= c + 4
        /\ AllDigits(SubSeq(s, 1, c - 1))
        /\ IntOf(SubSeq(s, 1, c - 1)) \in 1..12
        /\ AllDigits(SubSeq(s, c + 1, c + 2))
        /\ IntOf(SubSeq(s, c + 1, c + 2)) \in 0..59
        /\ SubSeq(s, c + 3, Len(s)) \in Markers

ClockHour(s) == IntOf(SubSeq(s, 1, ColonIndex(s) - 1))
ClockMinute(s) == IntOf(SubSeq(s, ColonIndex(s) + 1, ColonIndex(s) + 2))
ClockIsPm(s) == EndsWith(s, S_pm)

\* the hour of the day of hour h of the 12-hour clock
HourOfDay(h, is_pm) ==
    IF is_pm THEN (IF h = 12 THEN 12 ELSE h + 12)
    ELSE (IF h = 12 THEN 0 ELSE h)

\* key is four digits
IsFourDigits(key) == Len(key) = 4 /\ AllDigits(key)

KeyHour(key) == IntOf(SubSeq(key, 1, 2))
KeyMinute(key) == IntOf(SubSeq(key, 3, 4))

S_12_00_am ==
    <<"1", "2", ":", "0", "0", " ", "a", "m">>
S_12_00_pm ==
    <<"1", "2", ":", "0", "0", " ", "p", "m">>
S_0000 ==
    <<"0", "0", "0", "0">>
S_1200 ==
    <<"1", "2", "0", "0">>

\* C12: for every 'H:MM am' or 'H:MM pm' (H in 1..12, MM in 00..59, with
\* or without the space) the result is four digits, its hour is the hour of
\* the day (in 0..23, 12 pm being 12 and 12 am being 00) and its minute MM.
C12_TwelveHour ==
    /\ (pc = "returned" /\ IsTwelveHourSpelling(talk_time)) =>
          /\ IsFourDigits(result)
          /\ KeyHour(result) = HourOfDay(ClockHour(talk_time), ClockIsPm(talk_time))
          /\ KeyHour(result) \in 0..23
          /\ KeyMinute(result) = ClockMinute(talk_time)
    /\ (pc = "returned" /\ talk_time = S_12_00_pm) => result = S_1200
    /\ (pc = "returned" /\ talk_time = S_12_00_am) => result = S_0000

\* C12 happens: '12:00 am' was normalized.
C12_Witness ==
    /\ pc = "returned" /\ talk_time = S_12_00_am
    /\ IsTwelveHourSpelling(talk_time)
    /\ result = S_0000

S_1430pm ==
    <<"1", "4", "3", "0", "p", "m">>
S_2630 ==
    <<"2", "6", "3", "0">>

\* key is a time of day: four digits, hour at most 23, minute at most 59
IsTimeOfDay(key) ==
    /\ IsFourDigits(key)
    /\ KeyHour(key) <= 23
    /\ KeyMinute(key) <= 59

\* C13: every non-empty result, for any time string with a digit, is a
\* four-digit key between 0000 and 2359: hour at most 23, minute at most 59.
C13_KeyInRange ==
    (pc = "returned" /\ result /= <<>>) => IsTimeOfDay(result)

\* the run C13 fails on: the time token '1430pm' normalized to '2630'
C13_Reaches2630 ==
    pc = "returned" /\ talk_time = S_1430pm /\ result = S_2630

\* s without its ':' characters
WithoutColon(s) == SelectSeq(s, LAMBDA c : c /= ":")

\* s is a 12-hour spelling with or without the colon and the space:
\* 'H:MM am', 'H:MMam', 'HMM am', 'HMMam' and the same with pm
IsTwelveHourText(s) ==
    LET digits == SelectSeq(s, IsDigit)
        n      == Len(digits)
    IN  /\ n \in {3, 4}
        /\ \E mk \in Markers :
              s \in {digits \o mk,
                     SubSeq(digits, 1, n - 2) \o <<":">> \o SubSeq(digits, n - 1, n)
                     \o mk}
        /\ IntOf(SubSeq(digits, 1, n - 2)) \in 1..12
        /\ IntOf(SubSeq(digits, n - 1, n)) \in 0..59

\* the 24-hour spelling HHMM of the instant a 12-hour spelling names
TwentyFourHourSpelling(s) ==
    LET digits == SelectSeq(s, IsDigit)
        n      == Len(digits)
    IN  Format02d(HourOfDay(IntOf(SubSeq(digits, 1, n - 2)), EndsWith(s, S_pm)))
        \o SubSeq(digits, n - 1, n)

S_1430 ==
    <<"1", "4", "3", "0">>
S_2_30pm ==
    <<"2", ":", "3", "0", "p", "m">>

\* C14: a string of four digits HHMM without a marker is returned as it is,
\* and every 12-hour spelling of an instant ('2:30 pm', '2:30pm', '230pm')
\* gets the key of its 24-hour spelling ('1430').
C14_Idempotent ==
    /\ (pc = "returned" /\ IsFourDigits(talk_time)) => result = talk_time
    /\ (pc = "returned" /\ IsTwelveHourText(talk_time)) =>
          /\ result = TwentyFourHourSpelling(talk_time)
          /\ result = normalize_time_to_24h(TwentyFourHourSpelling(talk_time))
    /\ (pc = "returned" /\ talk_time \in {S_2_30_pm, S_2_30pm, S_230pm}) =>
          result = S_1430

\* C14 happens: the 24-hour string '0930', with its leading zero, was
\* normalized.
C14_Witness ==
    /\ pc = "returned" /\ IsFourDigits(talk_time)
    /\ talk_time = <<"0", "9", "3", "0">>
    /\ result = talk_time

\* C14 happens for a 12-hour spelling too: '230pm' was normalized.
C14_WitnessSpelling ==
    /\ pc = "returned" /\ talk_time = S_230pm
    /\ IsTwelveHourText(talk_time)
    /\ result = S_1430

HasDigit(s) == \E i \in 1..Len(s) : IsDigit(s[i])

C15_WitnessNoDigit ==
    pc = "returned" /\ talk_time = S_TBD /\ result = <<>>

\* the name is 'Room - Time - Surname - Title.ext' with these fields
IsStandardName(name, room, time, lastname, title, ext) ==
    name = FileNameOf(room, S_FieldSeparator, time, S_FieldSeparator, lastname,
                      S_FieldSeparator, title, ext)

\* C16: for a name 'Room - Time - Surname - Title.ext' the lastname token is
\* the whole surname, internal hyphens included, and the room, time and
\* extension tokens are the Room, Time and ext fields.
C16_HyphenatedSurname ==
    pc = "returned" =>
        \A r \in TokRooms, t \in TokTimes, l \in TokLastnames, ti \in TokTitles,
           e \in TokExtensions :
            IsStandardName(video_file, r, t, l, ti, e) =>
                /\ file_tokens.lastname = l
                /\ file_tokens.room = r
                /\ file_tokens.time = t
                /\ file_tokens.extension = e

\* C16 happens: 'Fisher - 1030 - Hatfield-Dodds - Testing Tools.mp4' was
\* tokenized.
C16_Witness ==
    /\ pc = "returned"
    /\ IsStandardName(video_file, S_Fisher, S_1030, S_Hatfield_Dodds,
                      S_TestingTools, S_mp4)
    /\ file_tokens.lastname = S_Hatfield_Dodds

\* index of the first ' - ' of s, 0 when it has none
FirstSeparatorIndex(s) ==
    LET at == {i \in 1..(Len(s) - 2) : SubSeq(s, i, i + 2) = S_FieldSeparator}
    IN  IF at = {} THEN 0 ELSE CHOOSE i \in at : \A j \in at : i <= j

\* the trimmed text before the first ' - ', None without a ' - '
TextBeforeFirstSeparator(s) ==
    IF FirstSeparatorIndex(s) = 0 THEN None
    ELSE Strip(SubSeq(s, 1, FirstSeparatorIndex(s) - 1))

\* C17: the room token is the trimmed text before the first ' - ' of the
\* name, and None for a name without ' - ', also when the name has hyphens
\* inside words.
C17_RoomBeforeSeparator ==
    pc = "returned" =>
        file_tokens.room = TextBeforeFirstSeparator(file_tokens.name_without_ext)

F_HyphensInWords ==
    <<"F", "i", "s", "h", "e", "r", " ", "1", "0", "3", "0", " ", "H", "a",
      "t", "f", "i", "e", "l", "d", "-", "D", "o", "d", "d", "s", " ", "R",
      "e", "-", "T", "e", "s", "t", "i", "n", "g", ".", "m", "p", "4">>
S_Fisher1030Hatfield ==
    <<"F", "i", "s", "h", "e", "r", " ", "1", "0", "3", "0", " ", "H", "a",
      "t", "f", "i", "e", "l", "d">>

\* the run C17 fails on: a name whose only hyphens are inside words got a
\* room token
C17_ReachesRoomWithoutSeparator ==
    /\ pc = "returned" /\ video_file = F_HyphensInWords
    /\ FirstSeparatorIndex(video_file) = 0
    /\ file_tokens.room = S_Fisher1030Hatfield

\* the highest partial-similarity score over the whole catalog, 0 for an
\* empty one
HighestScore(items) ==
    IF items = <<>> THEN 0
    ELSE CHOOSE s \in {items[i].partial_ratio : i \in 1..Len(items)} :
             \A i \in 1..Len(items) : items[i].partial_ratio <= s

\* title or speakers of the result are those of an item of the catalog
\* that the title pattern alone does not give
UsesCatalog ==
    \/ result /= match_speaker_with_fuzzy_matching(talk, <<>>).talk
    \/ needs_manual_review /= match_speaker_with_fuzzy_matching(talk, <<>>).needs_manual_review

\* C18: when the highest score over the catalog is at least 95, title and
\* speakers of the result are those of an item with that score and the
\* manual-review flag is false; when it is below 95, or the catalog is
\* empty, the result is what the title alone gives, whatever the catalog.
C18_Threshold ==
    pc = "returned" =>
        /\ HighestScore(talk_metadata) >= 95 =>
              /\ \E i \in 1..Len(talk_metadata) :
                    /\ talk_metadata[i].partial_ratio = HighestScore(talk_metadata)
                    /\ result.title = talk_metadata[i].title
                    /\ result.speakers = talk_metadata[i].speakers
              /\ needs_manual_review = FALSE
        /\ HighestScore(talk_metadata) < 95 => ~UsesCatalog

\* C18 happens: the second of two items scored exactly 95, the first one
\* less, and the talk got the second item's title.
C18_Witness ==
    /\ pc = "returned"
    /\ Len(talk_metadata) = 2
    /\ talk_metadata[1].partial_ratio = 60
    /\ talk_metadata[2].partial_ratio = 95
    /\ result.title = talk_metadata[2].title
    /\ result.title /= talk.title

\* C18 happens below the threshold too: the best item scored 94 and the
\* title pattern gave title and speaker.
C18_WitnessBelow ==
    /\ pc = "returned"
    /\ HighestScore(talk_metadata) = 94
    /\ talk.title = Y_Published
    /\ result.title = S_MyTalk
    /\ result.speakers = <<S_JaneDoe>>

\* neither the fuzzy match nor the title pattern succeeds
NothingSucceeds ==
    /\ HighestScore(talk_metadata) < 95
    /\ QuotedTitleGroups(talk.title) = None

\* C19: when neither the fuzzy match (score at least 95) nor the title
\* pattern succeeds, the returned talk has the original title and no
\* speakers, and the manual-review flag is true.
C19_ManualReview ==
    (pc = "returned" /\ NothingSucceeds) =>
        /\ result.title = talk.title
        /\ result.speakers = <<>>
        /\ needs_manual_review = TRUE

\* C19 happens: 'Keynote' was looked up in a catalog of two items, the
\* best of them at 94.
C19_Witness ==
    /\ pc = "returned" /\ NothingSucceeds
    /\ talk.title = Y_Keynote
    /\ Len(talk_metadata) = 2
    /\ HighestScore(talk_metadata) = 94
    /\ needs_manual_review = TRUE

HasTitle(t) == t.talk_title /= Missing

\* the talk the loop is at
CurrentTalk == talks[idx + 1]

\* C20: a talk without talk_title is never passed over: the pass got past
\* titled talks only, it returns only when every talk has a title, and
\* when the error is raised it is at a talk without title, which is in
\* neither result.
C20_MissingTitleFailsHard ==
    /\ pc \in {"talks", "returned", "raised"} =>
          \A i \in 1..idx : HasTitle(talks[i])
    /\ pc = "returned" => \A i \in 1..Len(talks) : HasTitle(talks[i])
    /\ pc = "raised" =>
          /\ idx < Len(talks) /\ ~HasTitle(CurrentTalk)
          /\ \A i \in 1..Len(skipped_talks) : skipped_talks[i] /= Missing
          /\ unmatched_files = <<>>

\* C20 happens: the error was raised at a talk without title that matches
\* a candidate file, after a talk with a title had been processed.
C20_Witness ==
    /\ pc = "raised" /\ idx = 1
    /\ ~HasTitle(CurrentTalk)
    /\ find_video_for_talk(CurrentTalk, video_files) /= None

\* C20 happens without a match too: the error was raised at a talk without
\* title that matches no candidate file.
C20_WitnessNoMatch ==
    /\ pc = "raised"
    /\ ~HasTitle(CurrentTalk)
    /\ video_files /= <<>>
    /\ find_video_for_talk(CurrentTalk, video_files) = None

----------------------------------------------------------------------------
(* Properties of rename_files (specification SpecRename)                   *)

\* the item of rename_map the loop of rename_files is at
OldName == rename_map[position + 1][1]
NewName == rename_map[position + 1][2]

\* C21: rename_files never overwrites a file.  In every step of its loop:
\* when the target name exists the directory is left as it is (the source
\* stays in place); when the directory changes, the target did not exist,
\* the source did, and the only change is that the source has the target
\* name; so the number of files never changes.
C21_NeverOverwrites ==
    [][(pc = "rename" /\ position' = position + 1) =>
          /\ TargetExists(directory, NewName) => directory' = directory
          /\ directory' /= directory =>
                /\ NewName \notin directory
                /\ OldName \in directory
                /\ directory' = (directory \ {OldName}) \cup {NewName}
          /\ Cardinality(directory') = Cardinality(directory)]_vars

\* C21 happens: rename_files on its own went through two items with the
\* same target name, neither present before; the first was renamed, the
\* second skipped and its source is still in place.
C21_Witness ==
    /\ pc = "renamed" /\ run = 0 /\ ~dry_run
    /\ Len(rename_map) = 2
    /\ rename_map[1][2] = rename_map[2][2]
    /\ success_count = 1 /\ skip_count = 1
    /\ rename_map[2][1] \in directory
    /\ rename_map[1][1] \notin directory

----------------------------------------------------------------------------
(* Properties of fix_missing_pybay_prefix (specification SpecPrefix)       *)

\* the 0-based positions k of a '(' such that the name from k on is
\* '(YYYY).ext', ext one or more word characters, up to the end of the name
\* (the final newline of a name does not count)
TrailingYears(name) ==
    {k \in 0..Len(name) :
        \E e \in LineEnds(name) :
            /\ k + 8 <= e
            /\ Slice(name, k, k + 1) = <<"(">>
            /\ AllDigits(Slice(name, k + 1, k + 5))
            /\ Slice(name, k + 5, k + 7) = <<")", ".">>
            /\ \A i \in (k + 8)..e : IsWordChar(name[i])}

\* the name from 0-based position k on is '(PyBay YYYY).ext'
EndsInPyBayYear(name) ==
    \E k \in 0..Len(name) :
        /\ YearTagAt(name, k)
        /\ k + 14 <= Len(name)
        /\ name[k + 13] = "."
        /\ \A i \in (k + 14)..Len(name) : IsWordChar(name[i])

\* C22: for a name ending in '(YYYY).ext' the result is that name with
\* 'PyBay ' put in after the '(' of that year and nothing else changed, and
\* it ends in '(PyBay YYYY).ext'; for a name that ends in '(PyBay YYYY).ext'
\* or has no trailing '(YYYY)' the result is None; the function applied to
\* its own result returns None.
C22_PrefixFixed ==
    pc \in {"returned", "again"} =>
        /\ \A k \in TrailingYears(video_file) :
               /\ result = Slice(video_file, 0, k + 1)
                               \o <<"P", "y", "B", "a", "y", " ">>
                               \o Slice(video_file, k + 1, Len(video_file))
               /\ YearTagAt(result, k)
        /\ TrailingYears(video_file) = {} => result = None
        /\ EndsInPyBayYear(video_file) => result = None
        /\ result /= None => fix_missing_pybay_prefix(result) = None
        /\ pc = "again" => new_filename = None

\* C22 happens: a name with a year in its title and '(2024)' at its start
\* was given '(PyBay 2025)' at its end only, and the function was applied
\* again to the result.
C22_Witness ==
    /\ pc = "again"
    /\ StartsWith(video_file, <<"(", "2", "0", "2", "4", ")">>)
    /\ StartsWith(result, <<"(", "2", "0", "2", "4", ")">>)
    /\ Len(result) = Len(video_file) + 6
    /\ EndsInPyBayYear(result)

\* C22 happens for None too: a name that ends in '(PyBay 2025).mp4' and
\* has '(2024)' before it was left alone.
C22_WitnessNone ==
    /\ pc = "returned" /\ result = None
    /\ EndsInPyBayYear(video_file)
    /\ Contains(video_file, <<"(", "2", "0", "2", "4", ")">>)

----------------------------------------------------------------------------
(* Properties of the pass over the talks (specification Spec)              *)

\* the talks processed so far that find_video_for_talk matched with file f
TalksMatching(f) ==
    {i \in 1..idx : find_video_for_talk(talks[i], video_files) = f}

\* the name generated from talk number i for file f
NameFromTalk(i, f) == generate_new_filename(talks[i], year, Tokens(f).extension)

\* C23: the entry of a matched file in rename_map is the name generated from
\* the first talk that matched the file; a later talk that matches the same
\* file does not replace it.
C23_FirstTalkClaims ==
    pc \in {"talks", "returned"} =>
        \A f \in matched_files :
            LET first == CHOOSE i \in TalksMatching(f) :
                             \A j \in TalksMatching(f) : i <= j
            IN  DictGet(rename_map, f) = NameFromTalk(first, f)

\* The pass returns with a file that two talks matched, mapped to the name
\* generated from the second talk and not to that of the first.
C23_ReachesLastTalkClaims ==
    /\ pc = "returned"
    /\ \E f \in matched_files :
           /\ TalksMatching(f) = {1, 2}
           /\ DictGet(rename_map, f) = NameFromTalk(2, f)
           /\ DictGet(rename_map, f) /= NameFromTalk(1, f)

----------------------------------------------------------------------------
(* The am/pm arithmetic of normalize_time_to_24h (specification SpecTime)  *)

\* the hour parsed from the digits of the input, before the am/pm rule
ParsedHour(time_str) ==
    LET digits == SelectSeq(time_str, IsDigit)
    IN  IF Len(digits) = 3 THEN IntOf(SubSeq(digits, 1, 1))
        ELSE IF Len(digits) <= 2 THEN IntOf(digits)
        ELSE IntOf(SubSeq(digits, 1, 2))

\* the input contains the marker, in any case
HasMarker(time_str, marker) == Contains(Lower(time_str), marker)

\* the hour of a result: its digits before the two digits of the minute
ResultHour(key) == IntOf(SubSeq(key, 1, Len(key) - 2))

S_0230 ==
    <<"0", "2", "3", "0">>

\* C24: when the input contains 'pm' and the parsed hour is not 12 the hour
\* of the result is the parsed hour plus 12; when it contains 'am' and the
\* parsed hour is 12 the hour of the result is 0; without a marker the hour
\* of the result is the parsed hour.
C24_AmPmArithmetic ==
    (pc = "returned" /\ result /= <<>>) =>
        /\ (HasMarker(talk_time, S_pm) /\ ParsedHour(talk_time) /= 12)
               => ResultHour(result) = ParsedHour(talk_time) + 12
        /\ (HasMarker(talk_time, S_am) /\ ParsedHour(talk_time) = 12)
               => ResultHour(result) = 0
        /\ (~HasMarker(talk_time, S_am) /\ ~HasMarker(talk_time, S_pm))
               => ResultHour(result) = ParsedHour(talk_time)

\* '2:30 pm Amphitheater' contains 'pm' and, in 'Amphitheater', 'am': the
\* result is '0230', the hour is not raised by 12.
C24_ReachesAmOverPm ==
    /\ pc = "returned"
    /\ talk_time = S_2_30_pm_Amphitheater
    /\ result = S_0230

----------------------------------------------------------------------------
(* The title normalization of match_speaker_with_fuzzy_matching            *)
(* (specification SpecFuzzy)                                               *)

\* the title without a '(PyBay YYYY)' at its end
WithoutTrailingTag(title) ==
    IF Len(title) >= 12 /\ PybayTagAt(title, Len(title) - 12)
    THEN Strip(Slice(title, 0, Len(title) - 12))
    ELSE title

\* the 0-based positions of the separators ' -- ' and ' - ' in the title
SpeakerSeparators(title) ==
    {i \in 0..(Len(title) - 3) :
        Slice(title, i, i + 3) \in {<<" ", EmDash, " ">>, <<" ", "-", " ">>}}

\* the body of the title: the text before its last speaker separator, the
\* whole title when it has none
BodyOf(title) ==
    IF SpeakerSeparators(title) = {} THEN title
    ELSE Slice(title, 0, CHOOSE i \in SpeakerSeparators(title) :
                             \A j \in SpeakerSeparators(title) : j <= i)

S_async ==
    <<"a", "s", "y", "n", "c">>

\* C25: the normalized title is the lowercased title without a trailing
\* '(PyBay YYYY)' and without the ' -- Speaker' or ' - Speaker' after its
\* last separator: the whole body, hyphens and dashes of the body included.
C25_WholeBody ==
    pc = "returned" =>
        normalized_yt_title
            = Strip(Lower(BodyOf(WithoutTrailingTag(Strip(talk.title)))))

\* 'Async-first Design -- Jane Doe (PyBay 2025)' is normalized to 'async':
\* the title is cut at the first hyphen of its body.
C25_ReachesCutAtFirstHyphen ==
    /\ pc = "returned"
    /\ talk.title = Y_AsyncFirst
    /\ normalized_yt_title = S_async

----------------------------------------------------------------------------
(* Properties of the runs of main (specification SpecRename)               *)

\* this is the second run, and rename_files applied the whole rename_map of
\* the first: every item renamed, none skipped, none failed
AppliedWithoutConflicts ==
    /\ run = 2
    /\ completed /= <<>>
    /\ completed[1][1] > 0 /\ completed[1][2] = 0 /\ completed[1][3] = 0

\* C26: in a second run over the directory, after rename_files applied the
\* whole map of the first run, no file is a candidate: the pass returns an
\* empty rename_map and no unmatched file, rename_files is not called, and
\* no name carries the review prefix twice.
C26_SecondPassEmpty ==
    AppliedWithoutConflicts =>
        /\ pc /= "list" => video_files = <<>>
        /\ pc = "returned" => rename_map = <<>> /\ unmatched_files = <<>>
        /\ pc \notin {"rename_files", "rename", "renamed"}
        /\ \A f \in directory : ~StartsWith(f, S_ReviewPrefix \o S_ReviewPrefix)

\* C26 happens: the first run renamed a matched file to a published name
\* and flagged an unmatched one, and the second pass has returned.
C26_Witness ==
    /\ AppliedWithoutConflicts
    /\ pc = "returned"
    /\ completed = <<<<2, 0, 0>>>>
    /\ S_ReviewPrefix \o F_OtherName \in directory
    /\ F_Standard \notin directory
    /\ \E f \in directory : EndsWith(f, <<".", "m", "p", "4">>)
                            /\ StartsWith(f, S_Talk \o EmDashSeparator)

\* C26 does not extend to a run with a conflict: the flagged name of an
\* unmatched file existed already, the file was skipped, and the second pass
\* finds it again.
C26_WitnessConflict ==
    /\ run = 2 /\ completed /= <<>> /\ completed[1][3] = 1
    /\ pc = "returned"
    /\ rename_map /= <<>>

----------------------------------------------------------------------------
(* Properties of download_file_fast (specification SpecFast)               *)

\* the outcomes of an attempt after which the loop goes on
Retryable ==
    {"rate_limit", "server_error", "http_error", "network_error", "error"}

\* C27: download_file_fast makes at most max_retries attempts.  An attempt
\* starts only at the head of the loop, and never after an attempt that
\* succeeded, that ended with HTTP 404 or with a 403 that is no rate limit.
\* A success is returned as (True, None).  (False, last_error) is returned
\* only after a 404, such a 403, or max_retries failed attempts, last_error
\* is the message of the latest failure, and time.sleep did not run after
\* the final attempt.
C27_AtMostMaxRetries ==
    [][LET before == workers[1]
           after == workers'[1]
       IN  /\ after.attempt + 1 <= max_retries
           /\ after.attempt /= before.attempt =>
                /\ after.attempt = before.attempt + 1
                /\ before.pc = "request"
                /\ before.outcome \in Retryable \cup {"none"}
           /\ before.outcome \in {"ok", "forbidden", "not_found"} =>
                after = before
           /\ after.pc = "fast_true" =>
                /\ after.outcome = "ok"
                /\ after.download_error = NoError
           /\ after.pc = "fast_false" =>
                /\ \/ after.outcome \in {"forbidden", "not_found"}
                   \/ after.attempt + 1 = max_retries
                /\ after.download_error = after.last_error
                /\ after.last_error =
                       IF after.attempt = -1 THEN NoError
                       ELSE ErrorOf(after.outcome)
                /\ ~after.slept
           /\ (before.outcome \in Retryable /\ before.pc = "request"
                 /\ before.attempt + 1 < max_retries) =>
                after.attempt = before.attempt + 1
      ]_vars

\* three attempts of three have failed, the last one on the network, and the
\* call has returned
C27_Witness ==
    /\ pc = "download_file_fast"
    /\ max_retries = 3
    /\ workers[1].pc = "fast_false"
    /\ workers[1].attempt = 2
    /\ workers[1].outcome = "network_error"
    /\ workers[1].download_error = ErrorOf("network_error")

\* the second attempt of three ended with HTTP 404 and the call has returned
C27_WitnessNotFound ==
    /\ pc = "download_file_fast"
    /\ max_retries = 3
    /\ workers[1].pc = "fast_false"
    /\ workers[1].attempt = 1
    /\ workers[1].outcome = "not_found"

----------------------------------------------------------------------------
(* Properties of the downloader (specification SpecDownload)               *)

\* the calls whose result main has taken and that count under key
Counted(key) ==
    {w \in DOMAIN workers :
        /\ workers[w].counted
        /\ IF workers[w].pc = "raised" THEN key = "failed"
           ELSE workers[w].stats[key] = 1}

Total(stats) == stats.downloaded + stats.skipped + stats.failed

C29_WitnessRaised ==
    /\ pc = "summary"
    /\ \E w \in DOMAIN workers : workers[w].pc = "raised"
    /\ total_stats = [downloaded |-> 0, skipped |-> 0, failed |-> 2]

\* the second call was taken before the first one had finished
C29_WitnessOrder ==
    /\ pc = "collect"
    /\ Len(workers) = 2
    /\ workers[2].counted
    /\ ~Finished(1)

----------------------------------------------------------------------------
(* Resuming and verification (specification SpecDownload)                  *)

\* entry i of the listing verifies against the file under its name
Verifies(i) ==
    LET f == all_files[i]
    IN  Exists(f.name) /\ verify_file(local[f.name], f.size, f.md5Checksum)

\* the pre-scan found entry i complete: it is not handed to a call
SkippedByPreScan(i) ==
    /\ pc \notin {"prescan"}
    /\ \A k \in DOMAIN files_to_download : files_to_download[k] /= i

\* no two entries of the listing carry the same name
DistinctNames ==
    \A i, j \in DOMAIN all_files :
        i /= j => all_files[i].name /= all_files[j].name

\* one step of a run that resumes: the pre-scan counts the files that exist
\* and verify as skipped and submits no call for them; such a file is never
\* written, emptied or deleted afterwards; a call that finds a file that
\* verifies returns skipped and leaves it; a call that finds a file that
\* does not verify deletes it and goes on to download it; and a download
\* opens the destination only when no file is there
ResumeStep ==
    /\ pc = "prescan" =>
        /\ existing_count' =
               Cardinality({i \in DOMAIN all_files : Verifies(i)})
        /\ \A i \in DOMAIN all_files :
               Verifies(i) =>
                   \A k \in DOMAIN files_to_download' :
                       files_to_download'[k] /= i
    /\ \A i \in DOMAIN all_files :
        SkippedByPreScan(i) =>
            /\ local'[all_files[i].name] = local[all_files[i].name]
            /\ \A w \in DOMAIN workers' : workers'[w].file /= i
    /\ \A w \in DOMAIN workers :
        LET name == InfoOf(w).name
        IN  /\ (workers[w].pc = "start" /\ workers'[w].pc /= "start") =>
                IF Verifies(workers[w].file)
                THEN /\ workers'[w].pc = "returned"
                     /\ workers'[w].stats = [NoStats EXCEPT !.skipped = 1]
                     /\ local' = local
                ELSE /\ local'[name] = Absent
                     /\ workers'[w].pc = "auth"
            /\ (workers[w].pc = "request" /\ workers'[w].pc = "stream") =>
                ~Exists(name)

\* C28: re-running the downloader resumes rather than repeats.  A file that
\* exists locally and passes verification is counted as skipped and is never
\* downloaded again nor modified; a local file that fails verification is
\* deleted and downloaded again.
C28_ResumesNotRepeats == [][ResumeStep]_vars

\* the same over the listings whose names are distinct
ResumesWithDistinctNames == [][DistinctNames => ResumeStep]_vars

\* two Drive files are named talk.mp4; the directory held the complete copy
\* of the second, which the pre-scan counted as skipped; the call for the
\* first has deleted it and stored the first file under the name
C28_ReachesVerifiedFileReplaced ==
    /\ pc = "summary"
    /\ Len(all_files) = 2
    /\ all_files[1].id = "id1" /\ all_files[2].id = "id2"
    /\ existing_count = 1
    /\ files_to_download = <<1>>
    /\ total_stats = [downloaded |-> 1, skipped |-> 1, failed |-> 0]
    /\ local["talk.mp4"] = CopyOf(all_files[1])
    /\ ~Verifies(2)

\* what the directory holds for a call that returned: after downloaded or
\* skipped the file under the destination verifies, after failed no file is
\* there
LeftBehind(w) ==
    IF workers[w].stats.failed = 1
    THEN ~Exists(InfoOf(w).name)
    ELSE Verifies(workers[w].file)

\* C30: after process_single_file_parallel has returned for a file, the
\* destination exists if and only if it passed verification: after
\* downloaded or skipped the local file has the expected size (and MD5 when
\* provided), after failed no partial or corrupt file is left.
C30_ExistsIffVerified ==
    \A w \in DOMAIN workers : workers[w].pc = "returned" => LeftBehind(w)

\* the same over the listings whose names are distinct
ExistsIffVerifiedWithDistinctNames ==
    DistinctNames => C30_ExistsIffVerified

\* two Drive files are named talk.mp4; the call for one returned downloaded,
\* the call for the other then deleted the file and failed: the summary says
\* one file was downloaded and the directory is empty
C30_ReachesDownloadedButAbsent ==
    /\ pc = "summary"
    /\ Len(workers) = 2
    /\ total_stats = [downloaded |-> 1, skipped |-> 0, failed |-> 1]
    /\ InfoOf(1).name = InfoOf(2).name
    /\ ~Exists(InfoOf(1).name)

====
